---------------------------- MODULE Spec2Model ----------------------------
(***************************************************************************)
(* Command Execution & Recovery Engine of rltgjqm                          *)
(* (class Executor, src/bin/rltgjqm.js lines 1027-1855).                    *)
(*                                                                         *)
(* A JavaScript string is modelled as the sequence of its characters, each *)
(* character a one-character TLA+ string.  An optional field of a JS       *)
(* object (a field that may be undefined) is modelled as a sequence of     *)
(* length 0 (undefined) or 1 (the value).                                  *)
(***************************************************************************)
EXTENDS Integers, Sequences, FiniteSets

(***************************************************************************)
(* Bounds of the model.                                                    *)
(***************************************************************************)
\* longest command list a caller hands to executeMultipleCommands
MaxCmds == 2
\* most activations of executeMultipleCommands / executeCommand on the call
\* stack (the outer call plus the batches started by recovery dialogues)
MaxDepth == 2

\* longest generated command string given to parseCommand
MaxLen == 4

\* most words of a generated command given to isDangerousCommand
MaxWords == 3

\* most lines of a generated phase-2 response
MaxLines == 3

(***************************************************************************)
(* Strings.                                                                *)
(***************************************************************************)
\* "git status"
CmdStatus == <<"g","i","t"," ","s","t","a","t","u","s">>
\* "git reset --hard HEAD~1"
CmdReset ==
  <<"g","i","t"," ","r","e","s","e","t"," ","-","-","h","a","r","d"," ",
    "H","E","A","D","~","1">>
\* "git push origin main"
CmdPush ==
  <<"g","i","t"," ","p","u","s","h"," ","o","r","i","g","i","n"," ",
    "m","a","i","n">>

\* the commands a caller may put in a batch
Commands == {CmdStatus, CmdReset}

\* JavaScript's \s on the characters the model uses
IsSpace(c) == c \in {" ", "\t", "\n"}

\* String.prototype.trim
RECURSIVE TrimLeft(_)
TrimLeft(s) ==
  IF s = <<>> THEN <<>>
  ELSE IF IsSpace(Head(s)) THEN TrimLeft(Tail(s)) ELSE s

RECURSIVE TrimRight(_)
TrimRight(s) ==
  IF s = <<>> THEN <<>>
  ELSE IF IsSpace(s[Len(s)]) THEN TrimRight(SubSeq(s, 1, Len(s) - 1)) ELSE s

Trim(s) == TrimRight(TrimLeft(s))

\* the literal lit occurs in s at position p
LitAt(s, p, lit) ==
  /\ p + Len(lit) - 1 <= Len(s)
  /\ \A k \in 1..Len(lit) : s[p + k - 1] = lit[k]

\* a pattern  w1\s+w2\s+...\s+wn  of literal words matches s at position p
RECURSIVE WordsAt(_, _, _)
WordsAt(s, p, words) ==
  /\ LitAt(s, p, Head(words))
  /\ \/ Len(words) = 1
     \/ \E q \in (p + Len(Head(words)) + 1)..Len(s) :
          /\ \A k \in (p + Len(Head(words)))..(q - 1) : IsSpace(s[k])
          /\ WordsAt(s, q, Tail(words))

\* faulty variant of TestWords: the pattern is anchored at the start
TestWords_Anchored(s, words) == s # <<>> /\ WordsAt(s, 1, words)

\* RegExp.prototype.test for an unanchored pattern of literal words
TestWords(s, words) == \E p \in 1..Len(s) : WordsAt(s, p, words)

(***************************************************************************)
(* DangerClassifier: Executor.isDangerousCommand.                          *)
(***************************************************************************)
dangerousPatterns ==
  << << <<"g","i","t">>, <<"r","e","s","e","t">>, <<"-","-","h","a","r","d">> >>,
     << <<"g","i","t">>, <<"c","l","e","a","n">>, <<"-","f">> >>,
     << <<"g","i","t">>, <<"p","u","s","h">>, <<"-","-","f","o","r","c","e">> >>,
     << <<"g","i","t">>, <<"r","e","b","a","s","e">>,
        <<"-","-","i","n","t","e","r","a","c","t","i","v","e">> >>,
     << <<"g","i","t">>, <<"b","r","a","n","c","h">>, <<"-","D">> >>,
     << <<"g","i","t">>, <<"t","a","g">>, <<"-","d">> >>,
     << <<"r","m">>, <<"-","r","f">> >>,
     << <<"g","i","t">>, <<"f","i","l","t","e","r","-","b","r","a","n","c","h">> >> >>

isDangerousCommand(command) ==
  \E k \in 1..Len(dangerousPatterns) : TestWords(command, dangerousPatterns[k])

(***************************************************************************)
(* Tokenizer: Executor.parseCommand.                                       *)
(***************************************************************************)
\* one iteration of the for loop: st = [args, current, inQuotes, quoteChar]
parseStep(st, char) ==
  IF (char = "\"" \/ char = "'") /\ ~st.inQuotes
    THEN [st EXCEPT !.inQuotes = TRUE, !.quoteChar = <<char>>]
  ELSE IF st.inQuotes /\ st.quoteChar = <<char>>
    THEN [st EXCEPT !.inQuotes = FALSE, !.quoteChar = <<>>]
  ELSE IF char = " " /\ ~st.inQuotes
    THEN IF Trim(st.current) # <<>>
           THEN [st EXCEPT !.args = Append(@, Trim(st.current)),
                           !.current = <<>>]
           ELSE st
  ELSE [st EXCEPT !.current = Append(@, char)]

RECURSIVE parseLoop(_, _, _)
parseLoop(st, command, i) ==
  IF i > Len(command) THEN st
  ELSE parseLoop(parseStep(st, command[i]), command, i + 1)

parseCommand(command) ==
  LET st == parseLoop([args |-> <<>>, current |-> <<>>,
                       inQuotes |-> FALSE, quoteChar |-> <<>>], command, 1)
  IN  IF Trim(st.current) # <<>> THEN Append(st.args, Trim(st.current))
      ELSE st.args

(***************************************************************************)
(* Response parsing of the recovery dialogue.                              *)
(***************************************************************************)
\* the backtick character (the one character the model does not write as itself)
Backtick == "BACKTICK"

Min(S) == CHOOSE x \in S : \A y \in S : x <= y

IsDigit(c) == c \in {"0","1","2","3","4","5","6","7","8","9"}

\* String.prototype.split('\n')
RECURSIVE SplitLines(_)
SplitLines(s) ==
  IF \E k \in 1..Len(s) : s[k] = "\n"
    THEN LET k == Min({j \in 1..Len(s) : s[j] = "\n"})
         IN  <<SubSeq(s, 1, k - 1)>> \o SplitLines(SubSeq(s, k + 1, Len(s)))
    ELSE <<s>>

\* text.replace(/D(.+?)D/g, '$1') for a delimiter D, scanning from position p
RECURSIVE ReplaceDelim(_, _, _)
ReplaceDelim(s, d, p) ==
  IF p > Len(s) THEN <<>>
  ELSE LET closes == {q \in (p + Len(d) + 1)..Len(s) : LitAt(s, q, d)}
       IN  IF /\ LitAt(s, p, d)
              /\ closes # {}
              /\ \A k \in (p + Len(d))..(Min(closes) - 1) : s[k] # "\n"
             THEN SubSeq(s, p + Len(d), Min(closes) - 1)
                    \o ReplaceDelim(s, d, Min(closes) + Len(d))
             ELSE <<s[p]>> \o ReplaceDelim(s, d, p + 1)

removeMarkdown(text) ==
  Trim(ReplaceDelim(ReplaceDelim(ReplaceDelim(ReplaceDelim(
         text, <<"*","*">>, 1), <<"*">>, 1), <<Backtick>>, 1), <<"~","~">>, 1))

\* number of digits at the start of line
RECURSIVE LeadingDigits(_)
LeadingDigits(line) ==
  IF line # <<>> /\ IsDigit(Head(line)) THEN 1 + LeadingDigits(Tail(line))
  ELSE 0

\* line.match(/^\d+\.\s*(.+)/)
NumberedMatch(line) ==
  LET n == LeadingDigits(line)
  IN  n >= 1 /\ Len(line) >= n + 2 /\ line[n + 1] = "."

\* match[1].trim() of that match
NumberedText(line) ==
  Trim(SubSeq(line, LeadingDigits(line) + 2, Len(line)))

\* faulty variant of solutionOption: the ellipsis is added to the first 40
\* characters
solutionOption_EllipsisAfterLimit(line) ==
  LET fullText == removeMarkdown(NumberedText(line))
      colons == {c \in 2..(Len(fullText) - 1) : fullText[c] = ":"}
  IN  IF colons # {}
        THEN [title |-> Trim(SubSeq(fullText, 1, Min(colons) - 1)),
              description |->
                Trim(SubSeq(fullText, Min(colons) + 1, Len(fullText))),
              fullText |-> fullText]
        ELSE [title |-> IF Len(fullText) > 40
                          THEN SubSeq(fullText, 1, 40) \o <<".", ".", ".">>
                          ELSE fullText,
              description |-> fullText,
              fullText |-> fullText]

\* the option pushed for one matching line
solutionOption(line) ==
  LET fullText == removeMarkdown(NumberedText(line))
      \* fullText.match(/^(.+?):\s*(.+)/): the first colon that has a
      \* character before it and a character after it
      colons == {c \in 2..(Len(fullText) - 1) : fullText[c] = ":"}
  IN  IF colons # {}
        THEN [title |-> Trim(SubSeq(fullText, 1, Min(colons) - 1)),
              description |->
                Trim(SubSeq(fullText, Min(colons) + 1, Len(fullText))),
              fullText |-> fullText]
        ELSE [title |-> IF Len(fullText) > 40
                          THEN SubSeq(fullText, 1, 37) \o <<".", ".", ".">>
                          ELSE fullText,
              description |-> fullText,
              fullText |-> fullText]

RECURSIVE optionsOfLines(_)
optionsOfLines(lines) ==
  IF lines = <<>> THEN <<>>
  ELSE (IF NumberedMatch(Head(lines)) THEN <<solutionOption(Head(lines))>>
        ELSE <<>>) \o optionsOfLines(Tail(lines))

\* Executor.parseSolutionOptions
parseSolutionOptions(solutionOptions) ==
  optionsOfLines(SplitLines(solutionOptions))

Max(S) == CHOOSE x \in S : \A y \in S : x >= y

\* length of the longest run of characters satisfying the test from p on
RECURSIVE RunOfBackticks(_, _)
RunOfBackticks(s, p) ==
  IF p <= Len(s) /\ s[p] = Backtick THEN 1 + RunOfBackticks(s, p + 1) ELSE 0

RECURSIVE RunOfSpaces(_, _)
RunOfSpaces(s, p) ==
  IF p <= Len(s) /\ IsSpace(s[p]) THEN 1 + RunOfSpaces(s, p + 1) ELSE 0

\* [^\n`]+
RECURSIVE RunOfCommandChars(_, _)
RunOfCommandChars(s, p) ==
  IF p <= Len(s) /\ s[p] \notin {"\n", Backtick}
    THEN 1 + RunOfCommandChars(s, p + 1) ELSE 0

\* "git", case-insensitively (flag i), at position g
GitAt(s, g) ==
  /\ g + 2 <= Len(s)
  /\ s[g] \in {"g", "G"} /\ s[g + 1] \in {"i", "I"} /\ s[g + 2] \in {"t", "T"}

\* `{0,3}\s*(git\s+[^\n`]+) matched from position b: the position of the last
\* character matched, 0 when there is no match.  \s+ is greedy and gives
\* characters back until a command character follows it.
GitBodyEnd(s, b) ==
  LET k == RunOfBackticks(s, b)
      g == b + k + RunOfSpaces(s, b + k)
      w == RunOfSpaces(s, g + 3)
      starts == {p \in (g + 4)..(g + 3 + w) : RunOfCommandChars(s, p) >= 1}
  IN  IF k <= 3 /\ GitAt(s, g) /\ w >= 1 /\ starts # {}
        THEN Max(starts) + RunOfCommandChars(s, Max(starts)) - 1
        ELSE 0

\* (?:^|\n) with flag m, then the body, matched at position m
GitMatchEnd(s, m) ==
  IF (m = 1 \/ s[m - 1] = "\n") /\ GitBodyEnd(s, m) # 0
    THEN GitBodyEnd(s, m)
  ELSE IF s[m] = "\n" /\ GitBodyEnd(s, m + 1) # 0
    THEN GitBodyEnd(s, m + 1)
  ELSE 0

\* solution.match(gitCommandPattern) with flag g, searching from position p
\* (the empty sequence stands for null)
RECURSIVE gitCommandMatches(_, _)
gitCommandMatches(s, p) ==
  LET found == {m \in p..Len(s) : GitMatchEnd(s, m) # 0}
  IN  IF found = {} THEN <<>>
      ELSE <<SubSeq(s, Min(found), GitMatchEnd(s, Min(found)))>>
             \o gitCommandMatches(s, GitMatchEnd(s, Min(found)) + 1)

\* match.replace(/[`\n]/g, '')
RECURSIVE StripTicks(_)
StripTicks(s) ==
  IF s = <<>> THEN <<>>
  ELSE (IF Head(s) \in {"\n", Backtick} THEN <<>> ELSE <<Head(s)>>)
         \o StripTicks(Tail(s))

\* the command list executeSpecificSolution builds from the response
solutionCommands(solution) ==
  LET matches == gitCommandMatches(solution, 1)
  IN  [k \in 1..Len(matches) |-> Trim(StripTicks(matches[k]))]

(***************************************************************************)
(* The environment: what the caller, the user, the spawned process and the *)
(* text generator may answer.                                              *)
(***************************************************************************)
\* a batch of three different commands, the last one dangerous
ThreeCommands == <<CmdStatus, CmdPush, CmdReset>>

\* the command lists a caller may pass: every list of at most MaxCmds
\* commands, and ThreeCommands
CommandLists ==
  UNION {[1..n -> Commands] : n \in 0..MaxCmds} \cup {ThreeCommands}

\* options.mode as a caller passes it (<<>>: no mode given)
CallerModes == {<<>>, <<"dry">>, <<"auto">>, <<"interactive">>, <<"step">>}

\* error.message of a failed execa call
SpawnErrorMessage == "spawn git ENOENT"
NonZeroExitMessage == "Command failed with exit code 1"

\* phase-1 responses of the generator: "ok" and "1. a: b\n2. c"
Responses1 ==
  { <<"o","k">>,
    <<"1","."," ","a",":"," ","b","\n","2","."," ","c">> }

\* phase-2 responses of the generator: "no" and the fenced block
\* "```\ngit reset --hard HEAD~1\n```"
Responses2 ==
  { <<"n","o">>,
    <<Backtick,Backtick,Backtick,"\n">> \o CmdReset
      \o <<"\n",Backtick,Backtick,Backtick>> }

\* what the user may type as a solution of their own
CustomSolutions == { <<"x">> }

(***************************************************************************)
(* State.                                                                  *)
(***************************************************************************)
VARIABLES
  stack,    \* the activations of executeMultipleCommands / executeCommand
            \* that have not returned, outermost first
  dryRun,   \* Executor.dryRun
  config,   \* the config module as executeCommand's catch block sees it
  outcome,  \* what the outermost call delivered to its caller, if it ended
  configFile,  \* the content of ~/.rltgjqm/config.json (<<>>: no file)
  tempConfig,  \* AIService.tempConfig (<<>>: undefined or null)
  usageFile,   \* the content of ~/.rltgjqm/usage.json
  today        \* the date the clock shows, counted in days

vars ==
  <<stack, dryRun, config, outcome, configFile, tempConfig, usageFile, today>>

\* the files and fields the executor does not write
stored == <<config, configFile, tempConfig, usageFile, today>>

\* "nomethod": the config module has no getAutoSuggestSolutions (the
\* ConfigManager of src/unnamed/part_000); "enabled" / "disabled": it has
\* one and the stored setting is true / false
ConfigStates == {"nomethod", "enabled", "disabled"}

\* AIService.supportedProviders
Providers == {"chatgpt", "gemini"}

\* UsageTracker.getDefaultUsageData on the given date; of the token counters
\* of a provider only totalTokens is kept
getDefaultUsageData(date) ==
  [date |-> date,
   requests |-> [provider \in Providers |-> 0],
   totalTokens |-> [provider \in Providers |-> 0]]

(***************************************************************************)
(* Result objects.                                                         *)
(***************************************************************************)
\* { success: false, cancelled: true }
CancelledResult ==
  [success |-> FALSE, cancelled |-> TRUE, dryRun |-> FALSE, skipped |-> FALSE,
   error |-> <<>>, command |-> <<>>]

\* { success: true, dryRun: true, command }
DryRunResult(command) ==
  [success |-> TRUE, cancelled |-> FALSE, dryRun |-> TRUE, skipped |-> FALSE,
   error |-> <<>>, command |-> <<command>>]

\* { success: true, result }
SuccessResult ==
  [success |-> TRUE, cancelled |-> FALSE, dryRun |-> FALSE, skipped |-> FALSE,
   error |-> <<>>, command |-> <<>>]

\* { success: false, error: error.message }
FailedResult(message) ==
  [success |-> FALSE, cancelled |-> FALSE, dryRun |-> FALSE, skipped |-> FALSE,
   error |-> <<message>>, command |-> <<>>]

\* faulty variant of SkippedResult: the skipped command is not a success
SkippedResult_Unsuccessful(command) ==
  [success |-> FALSE, cancelled |-> FALSE, dryRun |-> FALSE, skipped |-> TRUE,
   error |-> <<>>, command |-> <<command>>]

\* { success: true, skipped: true, command }
SkippedResult(command) ==
  [success |-> TRUE, cancelled |-> FALSE, dryRun |-> FALSE, skipped |-> TRUE,
   error |-> <<>>, command |-> <<command>>]

\* the five outcome kinds, as printExecutionSummary tells them apart
IsSucceeded(r) == r.success /\ ~r.dryRun /\ ~r.skipped
IsFailed(r) == ~r.success /\ ~r.cancelled
IsCancelled(r) == r.cancelled
IsSkipped(r) == r.skipped
IsPreviewedOnly(r) == r.dryRun

\* results.filter(...).length for the five filters of printExecutionSummary
printExecutionSummary(results) ==
  LET count(kind) ==
        Cardinality({k \in 1..Len(results) :
          \/ kind = "successful" /\ IsSucceeded(results[k])
          \/ kind = "failed" /\ IsFailed(results[k])
          \/ kind = "cancelled" /\ IsCancelled(results[k])
          \/ kind = "skipped" /\ IsSkipped(results[k])
          \/ kind = "dryRun" /\ IsPreviewedOnly(results[k])})
  IN  [total |-> Len(results),
       successful |-> count("successful"),
       failed |-> count("failed"),
       cancelled |-> count("cancelled"),
       skipped |-> count("skipped"),
       dryRun |-> count("dryRun")]

(***************************************************************************)
(* Decisions of the engine.                                                *)
(***************************************************************************)
\* const { mode = 'dry' } = options
ModeOf(options) == IF options.mode = <<>> THEN "dry" ELSE options.mode[1]

\* the options executeMultipleCommands passes to executeCommand:
\* { dryRun: false }, whatever its own options are
CommandOptions(options) == [dryRun |-> FALSE, skipSuggestion |-> FALSE]

\* the options executeSpecificSolution passes to executeMultipleCommands
InnerOptions(executionMode) ==
  [mode |-> <<executionMode>>, skipSuggestion |-> TRUE]

\* faulty variant of ShouldSuggest: skipSuggestion is not read
ShouldSuggest_FlagIgnored(autoSuggestEnabled, options) == autoSuggestEnabled

\* autoSuggestEnabled && !options.skipSuggestion
ShouldSuggest(autoSuggestEnabled, options) ==
  autoSuggestEnabled /\ ~options.skipSuggestion

\* faulty variant of IsDryRun: only the option of the call is looked at
IsDryRun_OptionOnly(flag, options) == options.dryRun

\* this.dryRun || options.dryRun
IsDryRun(flag, options) == flag \/ options.dryRun

\* the dry branch of executeMultipleCommands
DryRunResults(commands) ==
  [k \in 1..Len(commands) |-> DryRunResult(commands[k])]

\* faulty variant of AutoBreaks: the loop goes on after a cancelled command
AutoBreaks_FailureOnly(result) == ~result.success /\ ~result.cancelled

\* the two break conditions of the auto loop
AutoBreaks(result) ==
  \/ ~result.success /\ ~result.cancelled
  \/ result.cancelled

\* faulty variant of AsksToContinue: a cancelled command counts as a failure
AsksToContinue_AnyUnsuccessful(result) == ~result.success

\* the condition of the continue question of the interactive loop
AsksToContinue(result) == ~result.success /\ ~result.cancelled

(***************************************************************************)
(* Activation frames.                                                      *)
(***************************************************************************)
Frame(fn, commands, options, cmdOptions, pc, results) ==
  [fn |-> fn,                  \* the function called
   commands |-> commands,      \* its command list
   options |-> options,        \* the options of executeMultipleCommands
   cmdOptions |-> cmdOptions,  \* the options of the executeCommand call
   i |-> 1,                    \* the loop index, counted from 1
   results |-> results,
   pc |-> pc,
   error |-> <<>>,             \* error.message in the catch block
   result |-> <<>>,            \* the value executeCommand returns
   choices |-> <<>>,           \* options parsed in getUserSolutionChoice
   solution |-> <<>>,          \* commands of executeSpecificSolution
   \* history of this activation
   resultOf |-> [k \in 1..Len(results) |-> k],  \* index each result is for
   log |-> {},                 \* <<index, event>>: what was done for a command
   dialogue |-> {}]            \* the events of the open recovery dialogue

Top == stack[Len(stack)]

SetTop(f) == stack' = [stack EXCEPT ![Len(stack)] = f]

At(pc) == stack # <<>> /\ Top.pc = pc

Command(f) == f.commands[f.i]

\* f with the event logged for its current command
Logged(f, event) == [f EXCEPT !.log = @ \cup {<<f.i, event>>}]

\* f with the event added to its open recovery dialogue
Said(f, event) == [f EXCEPT !.dialogue = @ \cup {event}]

Did(f, index, event) == <<index, event>> \in f.log

\* pcs in which a recovery dialogue of the frame's current command is open
RecoveryPcs == {"gen1", "choose", "input", "gen2", "modePrompt", "innerBatch"}

Init ==
  /\ stack = <<>>
  /\ dryRun = FALSE
  /\ config \in ConfigStates
  /\ outcome = <<>>
  /\ configFile = <<>>
  /\ tempConfig = <<>>
  /\ usageFile = getDefaultUsageData(1)
  /\ today = 1

(***************************************************************************)
(* Calls made by the CLI layer.                                            *)
(***************************************************************************)
\* faulty variant of EnterBatch: dry mode walks the commands like the other
\* modes instead of returning the previews at once
EnterBatch_DryThroughLoop(commands, options) ==
  Frame("executeMultipleCommands", commands, options,
        [dryRun |-> TRUE, skipSuggestion |-> FALSE],
        IF ModeOf(options) \in {"dry", "auto", "interactive"}
          THEN "loop" ELSE "return",
        <<>>)

\* faulty variant of EnterBatch: a mode that is none of the three is taken
\* for the step-by-step mode
EnterBatch_UnknownModeRuns(commands, options) ==
  IF ModeOf(options) = "dry"
    THEN Frame("executeMultipleCommands", commands, options,
               CommandOptions(options), "return", DryRunResults(commands))
    ELSE Frame("executeMultipleCommands", commands, options,
               CommandOptions(options), "loop", <<>>)

\* executeMultipleCommands from its entry to the first loop iteration
EnterBatch(commands, options) ==
  IF ModeOf(options) = "dry"
    THEN Frame("executeMultipleCommands", commands, options,
               CommandOptions(options), "return", DryRunResults(commands))
  ELSE IF ModeOf(options) \in {"auto", "interactive"}
    THEN Frame("executeMultipleCommands", commands, options,
               CommandOptions(options), "loop", <<>>)
  ELSE Frame("executeMultipleCommands", commands, options,
             CommandOptions(options), "return", <<>>)

\* executor.executeMultipleCommands(commands, { mode })
executeMultipleCommands ==
  /\ stack = <<>> /\ outcome = <<>>
  /\ \E commands \in CommandLists, mode \in CallerModes :
       stack' = <<EnterBatch(commands, [mode |-> mode, skipSuggestion |-> FALSE])>>
  /\ UNCHANGED <<dryRun, stored, outcome>>

\* executor.executeCommand(command, options)
executeCommand ==
  /\ stack = <<>> /\ outcome = <<>>
  /\ \E command \in Commands, d \in BOOLEAN, sk \in BOOLEAN :
       stack' = <<Frame("executeCommand", <<command>>,
                        [mode |-> <<>>, skipSuggestion |-> FALSE],
                        [dryRun |-> d, skipSuggestion |-> sk], "exec", <<>>)>>
  /\ UNCHANGED <<dryRun, stored, outcome>>

\* executor.setDryRun(enabled)
setDryRun ==
  /\ stack = <<>> /\ outcome = <<>>
  /\ \E enabled \in BOOLEAN : dryRun' = enabled
  /\ UNCHANGED <<stack, stored, outcome>>

\* the caller has taken what the call delivered and goes on
CallerResumes ==
  /\ stack = <<>> /\ outcome # <<>>
  /\ outcome' = <<>>
  /\ UNCHANGED <<stack, dryRun, stored>>

(***************************************************************************)
(* The loops of executeMultipleCommands.                                   *)
(***************************************************************************)
\* the loop condition i < commands.length; in auto mode the body calls
\* executeCommand, in interactive mode it shows the execute/skip/quit prompt
LoopTop ==
  /\ At("loop")
  /\ IF Top.i > Len(Top.commands)
       THEN SetTop([Top EXCEPT !.pc = "return"])
     ELSE IF ModeOf(Top.options) = "auto"
       THEN SetTop([Top EXCEPT !.pc = "exec"])
     ELSE SetTop([Logged(Top, "asked") EXCEPT !.pc = "askAction"])
  /\ UNCHANGED <<dryRun, stored, outcome>>

\* faulty variant of AskAction: a skipped command gets no result
AskAction_SkipUnrecorded ==
  /\ At("askAction")
  /\ \E action \in {"execute", "skip", "quit"} :
       IF action = "quit"
         THEN SetTop([Logged(Top, "quit") EXCEPT !.pc = "return"])
       ELSE IF action = "skip"
         THEN SetTop([Logged(Top, "skip") EXCEPT !.i = @ + 1, !.pc = "loop"])
       ELSE SetTop([Logged(Top, "execute") EXCEPT !.pc = "exec"])
  /\ UNCHANGED <<dryRun, stored, outcome>>

\* faulty variant of AskAction: quit leaves the current command only
AskAction_QuitContinues ==
  /\ At("askAction")
  /\ \E action \in {"execute", "skip", "quit"} :
       IF action = "quit"
         THEN SetTop([Logged(Top, "quit") EXCEPT !.i = @ + 1, !.pc = "loop"])
       ELSE IF action = "skip"
         THEN SetTop([Logged(Top, "skip") EXCEPT
                !.results = Append(@, SkippedResult(Command(Top))),
                !.resultOf = Append(@, Top.i),
                !.i = @ + 1,
                !.pc = "loop"])
       ELSE SetTop([Logged(Top, "execute") EXCEPT !.pc = "exec"])
  /\ UNCHANGED <<dryRun, stored, outcome>>

\* faulty variant of AskAction: skip leaves the loop like quit does
AskAction_SkipEndsBatch ==
  /\ At("askAction")
  /\ \E action \in {"execute", "skip", "quit"} :
       IF action = "quit"
         THEN SetTop([Logged(Top, "quit") EXCEPT !.pc = "return"])
       ELSE IF action = "skip"
         THEN SetTop([Logged(Top, "skip") EXCEPT
                !.results = Append(@, SkippedResult(Command(Top))),
                !.resultOf = Append(@, Top.i),
                !.pc = "return"])
       ELSE SetTop([Logged(Top, "execute") EXCEPT !.pc = "exec"])
  /\ UNCHANGED <<dryRun, stored, outcome>>

\* the answer to the execute/skip/quit prompt
AskAction ==
  /\ At("askAction")
  /\ \E action \in {"execute", "skip", "quit"} :
       IF action = "quit"
         THEN SetTop([Logged(Top, "quit") EXCEPT !.pc = "return"])
       ELSE IF action = "skip"
         THEN SetTop([Logged(Top, "skip") EXCEPT
                !.results = Append(@, SkippedResult(Command(Top))),
                !.resultOf = Append(@, Top.i),
                !.i = @ + 1,
                !.pc = "loop"])
       ELSE SetTop([Logged(Top, "execute") EXCEPT !.pc = "exec"])
  /\ UNCHANGED <<dryRun, stored, outcome>>

\* faulty variant of TakeResult: a Cancelled result halts a step-by-step
\* batch as it halts an automatic one
TakeResult_CancelledHalts ==
  /\ At("result")
  /\ LET result == Top.result[1]
         pushed == [Top EXCEPT !.results = Append(@, result),
                               !.resultOf = Append(@, Top.i),
                               !.result = <<>>,
                               !.error = <<>>,
                               !.dialogue = {}]
     IN  IF Top.fn = "executeCommand"
           THEN SetTop([pushed EXCEPT !.pc = "return"])
         ELSE IF ModeOf(Top.options) = "auto" \/ result.cancelled
           THEN IF AutoBreaks(result)
                  THEN SetTop([pushed EXCEPT !.pc = "return"])
                  ELSE SetTop([pushed EXCEPT !.i = @ + 1, !.pc = "loop"])
         ELSE IF AsksToContinue(result)
           THEN SetTop([Logged(pushed, "continueShown")
                          EXCEPT !.pc = "askContinue"])
           ELSE SetTop([pushed EXCEPT !.i = @ + 1, !.pc = "loop"])
  /\ UNCHANGED <<dryRun, stored, outcome>>

\* the value of executeCommand arrives in the loop that awaited it
TakeResult ==
  /\ At("result")
  /\ LET result == Top.result[1]
         pushed == [Top EXCEPT !.results = Append(@, result),
                               !.resultOf = Append(@, Top.i),
                               !.result = <<>>,
                               !.error = <<>>,
                               !.dialogue = {}]
     IN  IF Top.fn = "executeCommand"
           THEN SetTop([pushed EXCEPT !.pc = "return"])
         ELSE IF ModeOf(Top.options) = "auto"
           THEN IF AutoBreaks(result)
                  THEN SetTop([pushed EXCEPT !.pc = "return"])
                  ELSE SetTop([pushed EXCEPT !.i = @ + 1, !.pc = "loop"])
         ELSE IF AsksToContinue(result)
           THEN SetTop([Logged(pushed, "continueShown")
                          EXCEPT !.pc = "askContinue"])
           ELSE SetTop([pushed EXCEPT !.i = @ + 1, !.pc = "loop"])
  /\ UNCHANGED <<dryRun, stored, outcome>>

\* the answer to "continue despite the failure?"
AskContinue ==
  /\ At("askContinue")
  /\ \E continueOnError \in BOOLEAN :
       IF continueOnError
         THEN SetTop([Top EXCEPT !.i = @ + 1, !.pc = "loop"])
         ELSE SetTop([Logged(Top, "continueDeclined") EXCEPT !.pc = "return"])
  /\ UNCHANGED <<dryRun, stored, outcome>>

\* faulty variant of Return: the flag of a returning inner batch stays set
\* for the commands of the batch it returns to
Return_FlagStaysSet ==
  /\ At("return")
  /\ IF Len(stack) = 1
       THEN /\ stack' = <<>>
            /\ outcome' = <<[status |-> "returned", frame |-> Top]>>
       ELSE /\ stack' = [SubSeq(stack, 1, Len(stack) - 1)
                           EXCEPT ![Len(stack) - 1].pc = "recovered",
                                  ![Len(stack) - 1].cmdOptions.skipSuggestion =
                                    Top.options.skipSuggestion]
            /\ UNCHANGED outcome
  /\ UNCHANGED <<dryRun, stored>>

\* the call returns: to the CLI layer, or into the recovery dialogue that
\* awaited the batch
Return ==
  /\ At("return")
  /\ IF Len(stack) = 1
       THEN /\ stack' = <<>>
            /\ outcome' = <<[status |-> "returned", frame |-> Top]>>
       ELSE /\ stack' = [SubSeq(stack, 1, Len(stack) - 1)
                           EXCEPT ![Len(stack) - 1].pc = "recovered"]
            /\ UNCHANGED outcome
  /\ UNCHANGED <<dryRun, stored>>

(***************************************************************************)
(* executeCommand.                                                         *)
(***************************************************************************)
\* faulty variant of DangerCheck: the dry-run check comes first
DangerCheck_PreviewFirst ==
  /\ At("exec")
  /\ IF IsDryRun(dryRun, Top.cmdOptions)
       THEN SetTop([Top EXCEPT !.result = <<DryRunResult(Command(Top))>>,
                               !.pc = "result"])
     ELSE IF isDangerousCommand(Command(Top))
       THEN SetTop([Logged(Top, "confirmShown") EXCEPT !.pc = "confirm"])
       ELSE SetTop([Top EXCEPT !.pc = "dryCheck"])
  /\ UNCHANGED <<dryRun, stored, outcome>>

\* the safety check: a dangerous command shows the confirmation prompt
DangerCheck ==
  /\ At("exec")
  /\ IF isDangerousCommand(Command(Top))
       THEN SetTop([Logged(Top, "confirmShown") EXCEPT !.pc = "confirm"])
       ELSE SetTop([Top EXCEPT !.pc = "dryCheck"])
  /\ UNCHANGED <<dryRun, stored, outcome>>

\* faulty variant of confirmExecution: the answer is not acted on
confirmExecution_AnswerIgnored ==
  /\ At("confirm")
  /\ \E confirm \in BOOLEAN :
       IF ~confirm
         THEN SetTop([Logged(Top, "declined") EXCEPT !.pc = "dryCheck"])
         ELSE SetTop([Logged(Top, "approved") EXCEPT !.pc = "dryCheck"])
  /\ UNCHANGED <<dryRun, stored, outcome>>

\* the answer to the danger confirmation
confirmExecution ==
  /\ At("confirm")
  /\ \E confirm \in BOOLEAN :
       IF ~confirm
         THEN SetTop([Logged(Top, "declined") EXCEPT
                !.result = <<CancelledResult>>, !.pc = "result"])
         ELSE SetTop([Logged(Top, "approved") EXCEPT !.pc = "dryCheck"])
  /\ UNCHANGED <<dryRun, stored, outcome>>

\* faulty variant of DryRunCheck: the promise of execa is not awaited
DryRunCheck_NotAwaited ==
  /\ At("dryCheck")
  /\ IF IsDryRun(dryRun, Top.cmdOptions)
       THEN SetTop([Top EXCEPT !.result = <<DryRunResult(Command(Top))>>,
                               !.pc = "result"])
       ELSE SetTop([Logged(Top, "execa") EXCEPT
              !.result = <<SuccessResult>>, !.pc = "result"])
  /\ UNCHANGED <<dryRun, stored, outcome>>

\* the dry-run check; past it the command is parsed and execa is called,
\* which throws (no process) or starts the child process
DryRunCheck ==
  /\ At("dryCheck")
  /\ IF IsDryRun(dryRun, Top.cmdOptions)
       THEN SetTop([Top EXCEPT !.result = <<DryRunResult(Command(Top))>>,
                               !.pc = "result"])
       ELSE \E started \in BOOLEAN :
              IF started /\ parseCommand(Command(Top)) # <<>>
                THEN SetTop([Logged(Top, "execa") EXCEPT !.pc = "running"])
                ELSE SetTop([Logged(Logged(Top, "execa"), "spawnError") EXCEPT
                       !.error = <<SpawnErrorMessage>>, !.pc = "catch"])
  /\ UNCHANGED <<dryRun, stored, outcome>>

\* the child process exits
ProcessExit ==
  /\ At("running")
  /\ \E exitCode \in {0, 1} :
       IF exitCode = 0
         THEN SetTop([Logged(Top, "exit0") EXCEPT
                !.result = <<SuccessResult>>, !.pc = "result"])
         ELSE SetTop([Logged(Top, "nonZeroExit") EXCEPT
                !.error = <<NonZeroExitMessage>>, !.pc = "catch"])
  /\ UNCHANGED <<dryRun, stored, outcome>>

\* the catch block: config.getAutoSuggestSolutions() is read.  Without that
\* method the call throws inside the catch block, executeCommand rejects and
\* so does the executeMultipleCommands awaiting it; a batch started by a
\* recovery dialogue is awaited inside the try of getSpecificSolution.
Catch ==
  /\ At("catch")
  /\ IF config = "nomethod"
       THEN IF Len(stack) = 1
              THEN /\ stack' = <<>>
                   /\ outcome' = <<[status |-> "rejected", frame |-> Top]>>
              ELSE /\ stack' = [SubSeq(stack, 1, Len(stack) - 1)
                                  EXCEPT ![Len(stack) - 1].pc = "recovered"]
                   /\ UNCHANGED outcome
     ELSE IF ShouldSuggest(config = "enabled", Top.cmdOptions)
       THEN /\ SetTop([Said(Logged(Top, "suggest"), "generate1")
                         EXCEPT !.pc = "gen1"])
            /\ UNCHANGED outcome
     ELSE /\ SetTop([Top EXCEPT !.pc = "recovered"])
          /\ UNCHANGED outcome
  /\ UNCHANGED <<dryRun, stored>>

\* faulty variant of ReturnFailed: a solution that was run counts as success
ReturnFailed_SolutionCounts ==
  /\ At("recovered")
  /\ SetTop([Top EXCEPT
       !.result = IF "innerBatch" \in Top.dialogue
                    THEN <<SuccessResult>>
                    ELSE <<FailedResult(Top.error[1])>>,
       !.choices = <<>>,
       !.solution = <<>>,
       !.pc = "result"])
  /\ UNCHANGED <<dryRun, stored, outcome>>

\* return { success: false, error: error.message }
ReturnFailed ==
  /\ At("recovered")
  /\ SetTop([Top EXCEPT !.result = <<FailedResult(Top.error[1])>>,
                        !.choices = <<>>,
                        !.solution = <<>>,
                        !.pc = "result"])
  /\ UNCHANGED <<dryRun, stored, outcome>>

(***************************************************************************)
(* The recovery dialogue.                                                  *)
(***************************************************************************)
\* faulty variant of suggestErrorSolution: a failed generator call is retried
suggestErrorSolution_RetriesOnFailure ==
  /\ At("gen1")
  /\ \/ SetTop(Said(Top, "generate1Failed"))
     \/ \E response \in Responses1 :
          LET options == parseSolutionOptions(response)
          IN  IF Len(options) = 0
                THEN SetTop([Said(Top, "unparsed") EXCEPT !.pc = "recovered"])
                ELSE SetTop([Said(Top, "choiceShown") EXCEPT
                       !.choices = options, !.pc = "choose"])
  /\ UNCHANGED <<dryRun, stored, outcome>>

\* faulty variant of suggestErrorSolution: the selection prompt is shown
\* whether or not an option was parsed
suggestErrorSolution_NoEmptyCheck ==
  /\ At("gen1")
  /\ \/ SetTop([Said(Top, "generate1Failed") EXCEPT !.pc = "recovered"])
     \/ \E response \in Responses1 :
          SetTop([Said(Top, "choiceShown") EXCEPT
            !.choices = parseSolutionOptions(response), !.pc = "choose"])
  /\ UNCHANGED <<dryRun, stored, outcome>>

\* suggestErrorSolution: the generator answers the phase-1 prompt or fails;
\* getUserSolutionChoice parses the answer and shows the selection prompt
suggestErrorSolution ==
  /\ At("gen1")
  /\ \/ SetTop([Said(Top, "generate1Failed") EXCEPT !.pc = "recovered"])
     \/ \E response \in Responses1 :
          LET options == parseSolutionOptions(response)
          IN  IF Len(options) = 0
                THEN SetTop([Said(Top, "unparsed") EXCEPT !.pc = "recovered"])
                ELSE SetTop([Said(Top, "choiceShown") EXCEPT
                       !.choices = options, !.pc = "choose"])
  /\ UNCHANGED <<dryRun, stored, outcome>>

\* faulty variant of getUserSolutionChoice: cancel is taken for the direct
\* input entry
getUserSolutionChoice_CancelAsksInput ==
  /\ At("choose")
  /\ \E selectedIndex \in -1..Len(Top.choices) :
       IF selectedIndex = -1
         THEN SetTop([Said(Top, "choiceCancelled") EXCEPT !.pc = "input"])
       ELSE IF selectedIndex = Len(Top.choices)
         THEN SetTop([Top EXCEPT !.pc = "input"])
       ELSE SetTop([Said(Top, "generate2") EXCEPT !.pc = "gen2"])
  /\ UNCHANGED <<dryRun, stored, outcome>>

\* getUserSolutionChoice: the user picks an option, direct input or cancel
getUserSolutionChoice ==
  /\ At("choose")
  /\ \E selectedIndex \in -1..Len(Top.choices) :
       IF selectedIndex = -1
         THEN SetTop([Said(Top, "choiceCancelled") EXCEPT !.pc = "recovered"])
       ELSE IF selectedIndex = Len(Top.choices)
         THEN SetTop([Top EXCEPT !.pc = "input"])
       ELSE SetTop([Said(Top, "generate2") EXCEPT !.pc = "gen2"])
  /\ UNCHANGED <<dryRun, stored, outcome>>

\* the user types a solution of their own
CustomSolution ==
  /\ At("input")
  /\ \E customSolution \in CustomSolutions :
       SetTop([Said(Top, "generate2") EXCEPT !.pc = "gen2"])
  /\ UNCHANGED <<dryRun, stored, outcome>>

\* faulty variant of getSpecificSolution: the mode prompt is shown whether or
\* not a command was extracted
getSpecificSolution_NoCommandCheck ==
  /\ At("gen2")
  /\ \/ SetTop([Said(Top, "generate2Failed") EXCEPT !.pc = "recovered"])
     \/ \E response \in Responses2 :
          SetTop([Said(Top, "modeShown") EXCEPT
            !.solution = solutionCommands(response), !.pc = "modePrompt"])
  /\ UNCHANGED <<dryRun, stored, outcome>>

\* faulty variant of getSpecificSolution: a response without a command makes
\* the generator be asked again
getSpecificSolution_AsksAgain ==
  /\ At("gen2")
  /\ \/ SetTop([Said(Top, "generate2Failed") EXCEPT !.pc = "recovered"])
     \/ \E response \in Responses2 :
          LET commands == solutionCommands(response)
          IN  IF Len(commands) > 0
                THEN SetTop([Said(Top, "modeShown") EXCEPT
                       !.solution = commands, !.pc = "modePrompt"])
                ELSE SetTop(Said(Top, "noCommands"))
  /\ UNCHANGED <<dryRun, stored, outcome>>

\* getSpecificSolution: the generator answers the phase-2 prompt or fails;
\* executeSpecificSolution extracts the commands and shows the mode prompt
getSpecificSolution ==
  /\ At("gen2")
  /\ \/ SetTop([Said(Top, "generate2Failed") EXCEPT !.pc = "recovered"])
     \/ \E response \in Responses2 :
          LET commands == solutionCommands(response)
          IN  IF Len(commands) > 0
                THEN SetTop([Said(Top, "modeShown") EXCEPT
                       !.solution = commands, !.pc = "modePrompt"])
                ELSE SetTop([Said(Top, "noCommands") EXCEPT
                       !.pc = "recovered"])
  /\ UNCHANGED <<dryRun, stored, outcome>>

\* executeSpecificSolution: the answer to the mode prompt; unless it is
\* cancel, executeMultipleCommands is called on the extracted commands
executeSpecificSolution ==
  /\ At("modePrompt")
  /\ \E executionMode \in {"auto", "interactive", "dry", "cancel"} :
       IF executionMode = "cancel"
         THEN SetTop([Said(Top, "modeCancelled") EXCEPT !.pc = "recovered"])
         ELSE /\ Len(stack) < MaxDepth
              /\ stack' = [stack EXCEPT
                             ![Len(stack)] = [Said(Top, "innerBatch")
                                                EXCEPT !.pc = "innerBatch"]]
                            \o <<EnterBatch(Top.solution,
                                            InnerOptions(executionMode))>>
  /\ UNCHANGED <<dryRun, stored, outcome>>

Next ==
  \/ executeMultipleCommands
  \/ executeCommand
  \/ setDryRun
  \/ CallerResumes
  \/ LoopTop
  \/ AskAction
  \/ TakeResult
  \/ AskContinue
  \/ Return
  \/ DangerCheck
  \/ confirmExecution
  \/ DryRunCheck
  \/ ProcessExit
  \/ Catch
  \/ ReturnFailed
  \/ suggestErrorSolution
  \/ getUserSolutionChoice
  \/ CustomSolution
  \/ getSpecificSolution
  \/ executeSpecificSolution

Spec == Init /\ [][Next]_vars

(***************************************************************************)
(* Calls of the pure methods of the executor.                              *)
(***************************************************************************)
\* git commit -m "fix: a b"
CmdCommit ==
  <<"g","i","t"," ","c","o","m","m","i","t"," ","-","m"," ",
    "\"","f","i","x",":"," ","a"," ","b","\"">>

\* the characters of the generated command strings
TokenChars == {"a", " ", "\t", "\"", "'"}

\* the command strings parseCommand is called on
TokenizerInputs ==
  UNION {[1..n -> TokenChars] : n \in 0..MaxLen} \cup {CmdCommit, CmdPush}

\* executor.parseCommand(command)
CallParseCommand ==
  /\ stack = <<>> /\ outcome = <<>>
  /\ \E command \in TokenizerInputs :
       stack' = <<Frame("parseCommand", <<command>>,
                        [mode |-> <<>>, skipSuggestion |-> FALSE],
                        [dryRun |-> FALSE, skipSuggestion |-> FALSE],
                        "parse", <<>>)>>
  /\ UNCHANGED <<dryRun, stored, outcome>>

\* parseCommand runs and returns args
ReturnArgs ==
  /\ At("parse")
  /\ stack' = <<>>
  /\ outcome' = <<[status |-> "returned",
                   frame |-> [Top EXCEPT !.result = <<parseCommand(Command(Top))>>,
                                         !.pc = "return"]]>>
  /\ UNCHANGED <<dryRun, stored>>

ParseCommandNext ==
  \/ CallParseCommand
  \/ ReturnArgs
  \/ CallerResumes

ParseCommandSpec == Init /\ [][ParseCommandNext]_vars

\* the words of a command put together with a separator between them
RECURSIVE JoinWords(_, _)
JoinWords(words, sep) ==
  IF Len(words) = 0 THEN <<>>
  ELSE IF Len(words) = 1 THEN words[1]
  ELSE words[1] \o sep \o JoinWords(Tail(words), sep)

\* words and separators of the generated commands
DangerWords ==
  {dangerousPatterns[1][1], dangerousPatterns[1][2], dangerousPatterns[1][3],
   dangerousPatterns[7][1], dangerousPatterns[7][2],
   <<"s","t","a","t","u","s">>}

Separators == {<<>>, <<" ">>, <<" ", " ">>, <<"\t">>}

WordLists == UNION {[1..n -> DangerWords] : n \in 1..MaxWords}

\* one command of each destructive kind: the words of a pattern, one space
\* apart, followed by an argument
KindExamples ==
  {JoinWords(dangerousPatterns[k], <<" ">>) \o <<" ", "x">> :
     k \in 1..Len(dangerousPatterns)}

\* the command strings isDangerousCommand is called on
DangerInputs ==
  {JoinWords(words, sep) : words \in WordLists, sep \in Separators}
    \cup KindExamples \cup {CmdReset, CmdStatus, CmdPush, CmdCommit}

\* executor.isDangerousCommand(command)
CallIsDangerousCommand ==
  /\ stack = <<>> /\ outcome = <<>>
  /\ \E command \in DangerInputs :
       stack' = <<Frame("isDangerousCommand", <<command>>,
                        [mode |-> <<>>, skipSuggestion |-> FALSE],
                        [dryRun |-> FALSE, skipSuggestion |-> FALSE],
                        "test", <<>>)>>
  /\ UNCHANGED <<dryRun, stored, outcome>>

\* the patterns are tested and the answer is returned
ReturnIsDangerous ==
  /\ At("test")
  /\ stack' = <<>>
  /\ outcome' =
       <<[status |-> "returned",
          frame |-> [Top EXCEPT !.result = <<isDangerousCommand(Command(Top))>>,
                                !.pc = "return"]]>>
  /\ UNCHANGED <<dryRun, stored>>

IsDangerousNext ==
  \/ CallIsDangerousCommand
  \/ ReturnIsDangerous
  \/ setDryRun
  \/ CallerResumes

IsDangerousSpec == Init /\ [][IsDangerousNext]_vars

\* the lines the generated phase-2 responses are made of, each with the
\* command it stands for (none for a line that is no git command line)
GitX == <<"g", "i", "t", " ", "x">>

ResponseLines ==
  { [line |-> GitX, command |-> <<GitX>>],
    [line |-> <<Backtick>> \o GitX \o <<Backtick>>, command |-> <<GitX>>],
    [line |-> <<" ", " ">> \o GitX \o <<" ">>, command |-> <<GitX>>],
    [line |-> <<"G", "i", "t", " ", "x">>,
     command |-> << <<"G", "i", "t", " ", "x">> >>],
    [line |-> <<Backtick, Backtick, Backtick>>, command |-> <<>>],
    [line |-> <<Backtick, Backtick, Backtick, Backtick>> \o GitX,
     command |-> <<>>],
    [line |-> <<"x", " ">> \o GitX, command |-> <<>>],
    [line |-> <<"g", "i", "t">>, command |-> <<>>],
    [line |-> <<>>, command |-> <<>>] }

\* the lines of a response put together with newlines between them
RECURSIVE JoinLines(_)
JoinLines(lines) ==
  IF Len(lines) = 0 THEN <<>>
  ELSE IF Len(lines) = 1 THEN lines[1].line
  ELSE lines[1].line \o <<"\n">> \o JoinLines(Tail(lines))

LineLists == UNION {[1..n -> ResponseLines] : n \in 1..MaxLines}

\* executor.executeSpecificSolution(solution)
CallExecuteSpecificSolution ==
  /\ stack = <<>> /\ outcome = <<>>
  /\ \E lines \in LineLists :
       stack' = <<Frame("executeSpecificSolution", <<JoinLines(lines)>>,
                        [mode |-> <<>>, skipSuggestion |-> FALSE],
                        [dryRun |-> FALSE, skipSuggestion |-> FALSE],
                        "match", <<>>)>>
  /\ UNCHANGED <<dryRun, stored, outcome>>

\* the pattern is matched and the matches are cleaned: the command list the
\* mode prompt is shown for
ExtractCommands ==
  /\ At("match")
  /\ stack' = <<>>
  /\ outcome' =
       <<[status |-> "returned",
          frame |-> [Top EXCEPT !.solution = solutionCommands(Command(Top)),
                                !.pc = "return"]]>>
  /\ UNCHANGED <<dryRun, stored>>

ExtractNext ==
  \/ CallExecuteSpecificSolution
  \/ ExtractCommands
  \/ CallerResumes

ExtractSpec == Init /\ [][ExtractNext]_vars

\* the lines the generated phase-1 responses are made of
Xs(n) == [k \in 1..n |-> "x"]

OptionLines ==
  { <<"1", ".", " ", "a", ":", " ", "b">>,
    <<"2", ".", " ", "c">>,
    <<"3", ".">>,
    <<"1", "0", ".", "c">>,
    <<"c">>,
    <<" ", "1", ".", " ", "c">>,
    <<"4", ".", " ", "*", "*", "a", "*", "*", ":", "b">>,
    <<"5", ".", " ">> \o Xs(40),
    <<"6", ".", " ">> \o Xs(41) }

RECURSIVE JoinOptionLines(_)
JoinOptionLines(lines) ==
  IF Len(lines) = 0 THEN <<>>
  ELSE IF Len(lines) = 1 THEN lines[1]
  ELSE lines[1] \o <<"\n">> \o JoinOptionLines(Tail(lines))

OptionResponses ==
  {JoinOptionLines(lines) :
     lines \in UNION {[1..n -> OptionLines] : n \in 1..MaxLines}}

\* executor.parseSolutionOptions(solutionOptions)
CallParseSolutionOptions ==
  /\ stack = <<>> /\ outcome = <<>>
  /\ \E solutionOptions \in OptionResponses :
       stack' = <<Frame("parseSolutionOptions", <<solutionOptions>>,
                        [mode |-> <<>>, skipSuggestion |-> FALSE],
                        [dryRun |-> FALSE, skipSuggestion |-> FALSE],
                        "parse", <<>>)>>
  /\ UNCHANGED <<dryRun, stored, outcome>>

\* the lines are matched and the options are returned
ReturnOptions ==
  /\ At("parse")
  /\ stack' = <<>>
  /\ outcome' =
       <<[status |-> "returned",
          frame |-> [Top EXCEPT !.choices = parseSolutionOptions(Command(Top)),
                                !.pc = "return"]]>>
  /\ UNCHANGED <<dryRun, stored>>

ParseOptionsNext ==
  \/ CallParseSolutionOptions
  \/ ReturnOptions
  \/ CallerResumes

ParseOptionsSpec == Init /\ [][ParseOptionsNext]_vars

(***************************************************************************)
(* The config module (ConfigManager): the operations that write            *)
(* ~/.rltgjqm/config.json.  The file is written without failure, no        *)
(* legacy .env file exists and no API key is set in the environment.       *)
(***************************************************************************)
MaxKeys == 2

\* the API keys a user can enter
ApiKeys == 1..MaxKeys

ExecutionModes == {"auto", "interactive", "dry"}

OutputModes == {"detail", "simple"}

\* the platforms object with one entry
OnePlatform(provider, apiKey) == [p \in {provider} |-> apiKey]

\* a configuration object in the multi-platform form; a field that is
\* missing or null is <<>>
MultiConfig(currentProvider, platforms) ==
  [currentProvider |-> currentProvider,
   platforms |-> <<platforms>>,
   aiProvider |-> <<>>,
   apiKey |-> <<>>,
   defaultExecutionMode |-> <<>>,
   outputMode |-> <<>>,
   debugMode |-> <<>>]

\* readFullConfig(): the file, a file of the single-platform form migrated
\* to the multi-platform form, or the default if there is no file
readFullConfig ==
  IF configFile = <<>>
    THEN MultiConfig(<<>>, <<>>)
  ELSE IF configFile[1].platforms = <<>>
    THEN MultiConfig(configFile[1].aiProvider,
                     IF configFile[1].aiProvider # <<>>
                        /\ configFile[1].apiKey # <<>>
                       THEN OnePlatform(configFile[1].aiProvider[1],
                                        configFile[1].apiKey[1])
                       ELSE <<>>)
  ELSE configFile[1]

\* saveFullConfig(config)
saveFullConfig(json) == configFile' = <<json>>

\* config.platforms[provider] is set
HasKey(json, provider) == provider \in DOMAIN json.platforms[1]

\* what an operation of the two modules returned to its caller
Delivered(fn, args, value) ==
  <<[status |-> "returned",
     frame |-> [fn |-> fn, args |-> args, result |-> <<value>>]]>>

\* the platforms object with the entry of the provider set
WithKey(platforms, provider, apiKey) ==
  [p \in DOMAIN platforms \cup {provider} |->
     IF p = provider THEN apiKey ELSE platforms[p]]

\* the platforms object after delete config.platforms[provider]
WithoutKey(platforms, provider) ==
  IF DOMAIN platforms \subseteq {provider}
    THEN <<>>
    ELSE [p \in DOMAIN platforms \ {provider} |-> platforms[p]]

\* config.setPlatformApiKey(provider, apiKey)
setPlatformApiKeyOf(provider, apiKey) ==
  LET json == readFullConfig
      platforms == WithKey(json.platforms[1], provider, apiKey)
  IN /\ saveFullConfig([json EXCEPT
          !.platforms = <<platforms>>,
          !.currentProvider =
             IF json.currentProvider = <<>> THEN <<provider>> ELSE @])
     /\ outcome' = Delivered("setPlatformApiKey", <<provider, apiKey>>, TRUE)

setPlatformApiKey ==
  /\ stack = <<>> /\ outcome = <<>>
  /\ \E provider \in Providers, apiKey \in ApiKeys :
       setPlatformApiKeyOf(provider, apiKey)
  /\ UNCHANGED <<stack, dryRun, config, tempConfig, usageFile, today>>

deletePlatformApiKeyOf_KeepsActive(provider) ==
  LET json == readFullConfig
  IN IF ~HasKey(json, provider)
       THEN /\ outcome' = Delivered("deletePlatformApiKey", <<provider>>, FALSE)
            /\ UNCHANGED configFile
       ELSE /\ saveFullConfig([json EXCEPT
                 !.platforms = <<WithoutKey(json.platforms[1], provider)>>])
            /\ outcome' = Delivered("deletePlatformApiKey", <<provider>>, TRUE)

\* config.deletePlatformApiKey(provider)
deletePlatformApiKeyOf(provider) ==
  LET json == readFullConfig
      platforms == WithoutKey(json.platforms[1], provider)
      \* Object.keys(config.platforms)
      availablePlatforms == DOMAIN platforms
  IN IF ~HasKey(json, provider)
       THEN /\ outcome' = Delivered("deletePlatformApiKey", <<provider>>, FALSE)
            /\ UNCHANGED configFile
       ELSE /\ \E next \in IF availablePlatforms = {}
                             THEN {<<>>}
                             ELSE {<<p>> : p \in availablePlatforms} :
                 saveFullConfig([json EXCEPT
                   !.platforms = <<platforms>>,
                   !.currentProvider =
                      IF @ = <<provider>> THEN next ELSE @])
            /\ outcome' = Delivered("deletePlatformApiKey", <<provider>>, TRUE)

deletePlatformApiKey ==
  /\ stack = <<>> /\ outcome = <<>>
  /\ \E provider \in Providers : deletePlatformApiKeyOf(provider)
  /\ UNCHANGED <<stack, dryRun, config, tempConfig, usageFile, today>>

\* config.setCurrentProvider(provider)
setCurrentProviderOf(provider) ==
  LET json == readFullConfig
  IN IF ~HasKey(json, provider)
       THEN /\ outcome' = Delivered("setCurrentProvider", <<provider>>, FALSE)
            /\ UNCHANGED configFile
       ELSE /\ saveFullConfig([json EXCEPT !.currentProvider = <<provider>>])
            /\ outcome' = Delivered("setCurrentProvider", <<provider>>, TRUE)

setCurrentProvider ==
  /\ stack = <<>> /\ outcome = <<>>
  /\ \E provider \in Providers : setCurrentProviderOf(provider)
  /\ UNCHANGED <<stack, dryRun, config, tempConfig, usageFile, today>>

\* the provider menu of the config module: keys are stored and deleted and
\* the active provider is chosen
ProviderNext ==
  \/ setPlatformApiKey
  \/ deletePlatformApiKey
  \/ setCurrentProvider
  \/ CallerResumes

ProviderSpec == Init /\ [][ProviderNext]_vars

\* config.setAIConfig(provider, apiKey): the whole file is written anew in
\* the single-platform form
setAIConfigOf(provider, apiKey) ==
  /\ configFile' = <<[currentProvider |-> <<>>,
                      platforms |-> <<>>,
                      aiProvider |-> <<provider>>,
                      apiKey |-> <<apiKey>>,
                      defaultExecutionMode |-> <<>>,
                      outputMode |-> <<>>,
                      debugMode |-> <<>>]>>
  /\ outcome' = Delivered("setAIConfig", <<provider, apiKey>>, TRUE)

setAIConfig ==
  /\ stack = <<>> /\ outcome = <<>>
  /\ \E provider \in Providers, apiKey \in ApiKeys :
       setAIConfigOf(provider, apiKey)
  /\ UNCHANGED <<stack, dryRun, config, tempConfig, usageFile, today>>

\* config.setDefaultExecutionMode(mode)
setDefaultExecutionMode ==
  /\ stack = <<>> /\ outcome = <<>>
  /\ \E mode \in ExecutionModes :
       /\ saveFullConfig([readFullConfig EXCEPT
            !.defaultExecutionMode = <<mode>>])
       /\ outcome' = Delivered("setDefaultExecutionMode", <<mode>>, TRUE)
  /\ UNCHANGED <<stack, dryRun, config, tempConfig, usageFile, today>>

\* config.setOutputMode(mode)
setOutputMode ==
  /\ stack = <<>> /\ outcome = <<>>
  /\ \E mode \in OutputModes :
       /\ saveFullConfig([readFullConfig EXCEPT !.outputMode = <<mode>>])
       /\ outcome' = Delivered("setOutputMode", <<mode>>, TRUE)
  /\ UNCHANGED <<stack, dryRun, config, tempConfig, usageFile, today>>

\* config.setDebugMode(enabled)
setDebugMode ==
  /\ stack = <<>> /\ outcome = <<>>
  /\ \E enabled \in BOOLEAN :
       /\ saveFullConfig([readFullConfig EXCEPT !.debugMode = <<enabled>>])
       /\ outcome' = Delivered("setDebugMode", <<enabled>>, TRUE)
  /\ UNCHANGED <<stack, dryRun, config, tempConfig, usageFile, today>>

\* config.getDefaultExecutionMode(), getOutputMode() and getDebugMode()
getDefaultExecutionMode == readFullConfig.defaultExecutionMode

getOutputMode ==
  IF readFullConfig.outputMode = <<>>
    THEN "detail"
    ELSE readFullConfig.outputMode[1]

getDebugMode ==
  IF readFullConfig.debugMode = <<>> THEN FALSE ELSE readFullConfig.debugMode[1]

\* every operation of the config module that writes the file
ConfigNext ==
  \/ setPlatformApiKey
  \/ deletePlatformApiKey
  \/ setCurrentProvider
  \/ setAIConfig
  \/ setDefaultExecutionMode
  \/ setOutputMode
  \/ setDebugMode
  \/ CallerResumes

ConfigSpec == Init /\ [][ConfigNext]_vars

(***************************************************************************)
(* The usage tracker (UsageTracker): the daily counters in                 *)
(* ~/.rltgjqm/usage.json.  One process writes the file and the date only   *)
(* moves forward.                                                          *)
(***************************************************************************)
MaxDays == 3

MaxRequests == 2

MaxTokens == 1

\* usage.total_tokens of one API response
TokenCounts == 0..MaxTokens

\* readUsageData(), after the reset that every operation of the tracker
\* applies when the stored date is not the current date
DataOfToday_NoReset == [usageFile EXCEPT !.date = today]

DataOfToday ==
  IF usageFile.date # today THEN getDefaultUsageData(today) ELSE usageFile

\* the data with one more request of the provider and its tokens
WithRequest(data, provider, tokens) ==
  [data EXCEPT !.requests[provider] = @ + 1,
               !.totalTokens[provider] = @ + tokens]

\* usageTracker.recordChatGPTUsage(usageInfo); usageInfo may be undefined
recordChatGPTUsage ==
  /\ stack = <<>> /\ outcome = <<>>
  /\ DataOfToday.requests["chatgpt"] < MaxRequests
  /\ \E usageInfo \in {<<>>} \cup {<<tokens>> : tokens \in TokenCounts} :
       LET data == WithRequest(DataOfToday, "chatgpt",
                               IF usageInfo = <<>> THEN 0 ELSE usageInfo[1])
       IN /\ usageFile' = data
          /\ outcome' = Delivered("recordChatGPTUsage", usageInfo,
                                  data.totalTokens["chatgpt"])
  /\ UNCHANGED <<stack, dryRun, config, configFile, tempConfig, today>>

\* usageTracker.recordGeminiUsageWithActualData(actualUsage)
recordGeminiUsageWithActualData ==
  /\ stack = <<>> /\ outcome = <<>>
  /\ DataOfToday.requests["gemini"] < MaxRequests
  /\ \E tokens \in TokenCounts :
       LET data == WithRequest(DataOfToday, "gemini", tokens)
       IN /\ usageFile' = data
          /\ outcome' = Delivered("recordGeminiUsageWithActualData",
                                  <<tokens>>, data.totalTokens["gemini"])
  /\ UNCHANGED <<stack, dryRun, config, configFile, tempConfig, today>>

\* usageTracker.getCurrentUsage(): reading resets the file on a new day
getCurrentUsage ==
  /\ stack = <<>> /\ outcome = <<>>
  /\ usageFile' = DataOfToday
  /\ outcome' = Delivered("getCurrentUsage", <<>>, DataOfToday)
  /\ UNCHANGED <<stack, dryRun, config, configFile, tempConfig, today>>

\* midnight (UTC) passes
DayPasses ==
  /\ today < MaxDays
  /\ today' = today + 1
  /\ UNCHANGED <<stack, dryRun, config, outcome, configFile, tempConfig,
                 usageFile>>

UsageNext ==
  \/ recordChatGPTUsage
  \/ recordGeminiUsageWithActualData
  \/ getCurrentUsage
  \/ DayPasses
  \/ CallerResumes

UsageSpec == Init /\ [][UsageNext]_vars

(***************************************************************************)
(* The AI service (AIService): the configuration a request is made with.   *)
(***************************************************************************)
\* the { provider, apiKey } object; a null is <<>>
AIConfig(provider, apiKey) == [provider |-> provider, apiKey |-> apiKey]

\* config.readConfigFile()
readConfigFile ==
  IF configFile = <<>>
    THEN AIConfig(<<>>, <<>>)
  ELSE IF configFile[1].platforms # <<>>
    THEN LET json == configFile[1]
         IN AIConfig(json.currentProvider,
                     IF json.currentProvider # <<>>
                        /\ HasKey(json, json.currentProvider[1])
                       THEN <<json.platforms[1][json.currentProvider[1]]>>
                       ELSE <<>>)
  ELSE AIConfig(configFile[1].aiProvider, configFile[1].apiKey)

\* config.getAIConfig()
getAIConfig == readConfigFile

\* aiService.getConfig()
getConfig == IF tempConfig # <<>> THEN tempConfig[1] ELSE getAIConfig

\* what an operation threw
Thrown(fn, args, error) ==
  <<[status |-> "rejected",
     frame |-> [fn |-> fn, args |-> args, result |-> <<error>>]]>>

\* callChatGPT / callGemini with the given configuration: the API accepts
\* the request or not, and an accepted request is recorded by the usage
\* tracker
CallApi(used, accepted, tokens) ==
  IF accepted
    THEN /\ DataOfToday.requests[used.provider[1]] < MaxRequests
         /\ usageFile' = WithRequest(DataOfToday, used.provider[1], tokens)
    ELSE UNCHANGED usageFile

\* aiService.generateCommand(prompt); the response and the error stand for
\* the configuration the request was made with
generateCommand ==
  /\ stack = <<>> /\ outcome = <<>>
  /\ LET used == getConfig
     IN IF used.provider = <<>> \/ used.apiKey = <<>>
          THEN /\ outcome' = Thrown("generateCommand", <<>>, used)
               /\ UNCHANGED usageFile
          ELSE \E accepted \in BOOLEAN, tokens \in TokenCounts :
                 /\ CallApi(used, accepted, tokens)
                 /\ outcome' = IF accepted
                                 THEN Delivered("generateCommand", <<>>, used)
                                 ELSE Thrown("generateCommand", <<>>, used)
  /\ UNCHANGED <<stack, dryRun, config, configFile, tempConfig, today>>

\* aiService.validateApiKey(provider, apiKey)
validateApiKeyOf(provider, apiKey) ==
  LET originalConfig == getConfig
  IN \E accepted \in BOOLEAN, tokens \in TokenCounts :
       /\ CallApi(AIConfig(<<provider>>, <<apiKey>>), accepted, tokens)
       /\ tempConfig' =
            IF accepted
              THEN <<AIConfig(originalConfig.provider, originalConfig.apiKey)>>
              ELSE <<>>
       /\ outcome' = Delivered("validateApiKey", <<provider, apiKey>>, accepted)

validateApiKey ==
  /\ stack = <<>> /\ outcome = <<>>
  /\ \E provider \in Providers, apiKey \in ApiKeys :
       validateApiKeyOf(provider, apiKey)
  /\ UNCHANGED <<stack, dryRun, config, configFile, today>>

\* one process validates keys, stores them and generates commands
ServiceNext ==
  \/ validateApiKey
  \/ setPlatformApiKey
  \/ generateCommand
  \/ CallerResumes

ServiceSpec == Init /\ [][ServiceNext]_vars

(***************************************************************************)
(* The command line: executeGitCommand(promptArg, options) of the CLI.     *)
(* An API key is configured and the generator has answered; the usage      *)
(* that the generation records is left to the AI service above.            *)
(***************************************************************************)
\* the flags --auto, --interactive and --dry-run of one invocation
CliOptions == [auto : BOOLEAN, interactive : BOOLEAN, dryRun : BOOLEAN]

\* promptTemplate.parseCommands(response): the commands of a response
GeneratedCommands == {<<>>, <<CmdStatus>>, <<CmdReset, CmdStatus>>}

\* let mode = defaultMode; if (options.auto) ...; if (options.interactive)
\* ...; if (options.dryRun) ...: the last assignment wins
resolveMode_AutoFirst(options, defaultMode) ==
  IF options.auto THEN "auto"
  ELSE IF options.interactive THEN "interactive"
  ELSE IF options.dryRun THEN "dry"
  ELSE defaultMode

resolveMode(options, defaultMode) ==
  LET mode1 == IF options.auto THEN "auto" ELSE defaultMode
      mode2 == IF options.interactive THEN "interactive" ELSE mode1
  IN IF options.dryRun THEN "dry" ELSE mode2

\* what executeGitCommand returned, the mode it resolved and the methods
\* of the executor it called
CliDelivered(options, commands, mode, calls, value) ==
  <<[status |-> "returned",
     frame |-> [fn |-> "executeGitCommand",
                args |-> <<options>>,
                commands |-> commands,
                mode |-> mode,
                executorCalls |-> calls,
                result |-> <<value>>]]>>

\* executeGitCommand: chosen is the answer to the prompt of
\* ensureDefaultExecutionMode, asked if no default mode is stored.  With a
\* mode that runs commands the call of executeMultipleCommands is entered
\* and the handler goes on when the batch has delivered its results.
executeGitCommandOf(options, commands, chosen) ==
  LET currentMode == getDefaultExecutionMode
      defaultMode == IF currentMode # <<>> THEN currentMode[1] ELSE chosen
      mode == resolveMode(options, defaultMode)
      \* executor.getGitStatus() for the display and for the prompt
      calls == IF getOutputMode = "detail"
                 THEN <<"getGitStatus", "getGitStatus">>
                 ELSE <<"getGitStatus">>
  IN /\ IF currentMode # <<>>
          THEN UNCHANGED configFile
          ELSE saveFullConfig([readFullConfig EXCEPT
                 !.defaultExecutionMode = <<chosen>>])
     /\ IF commands = <<>>
          THEN /\ outcome' = CliDelivered(options, commands, mode, calls, FALSE)
               /\ UNCHANGED stack
        ELSE IF mode = "dry"
          THEN /\ outcome' = CliDelivered(options, commands, mode, calls, TRUE)
               /\ UNCHANGED stack
        ELSE IF mode \in {"auto", "interactive"}
          THEN /\ stack' = <<EnterBatch(commands, [mode |-> <<mode>>,
                                                   skipSuggestion |-> FALSE])>>
               /\ UNCHANGED outcome
        ELSE /\ outcome' = CliDelivered(options, commands, mode, calls, TRUE)
             /\ UNCHANGED stack

executeGitCommand ==
  /\ stack = <<>> /\ outcome = <<>>
  /\ \E options \in CliOptions, commands \in GeneratedCommands,
        chosen \in ExecutionModes :
       executeGitCommandOf(options, commands, chosen)
  /\ UNCHANGED <<dryRun, config, tempConfig, usageFile, today>>

\* the CLI with the executor below it and the config menu that changes the
\* stored default mode
CliNext ==
  \/ executeGitCommand
  \/ setDefaultExecutionMode
  \/ CallerResumes
  \/ LoopTop
  \/ AskAction
  \/ TakeResult
  \/ AskContinue
  \/ Return
  \/ DangerCheck
  \/ confirmExecution
  \/ DryRunCheck
  \/ ProcessExit
  \/ Catch
  \/ ReturnFailed
  \/ suggestErrorSolution
  \/ getUserSolutionChoice
  \/ CustomSolution
  \/ getSpecificSolution
  \/ executeSpecificSolution

CliSpec == Init /\ [][CliNext]_vars

(***************************************************************************)
(* executeMultipleCommandsLegacy: the older loop over executeCommand.      *)
(***************************************************************************)
\* the options a caller passes: what executeCommand reads of them, and
\* continueOnError
LegacyOptions ==
  [dryRun : BOOLEAN, skipSuggestion : BOOLEAN, continueOnError : BOOLEAN]

\* the options as executeCommand(command, options) receives them
PassedOptions(options) ==
  [dryRun |-> options.dryRun, skipSuggestion |-> options.skipSuggestion]

IsLegacy(f) == f.fn = "executeMultipleCommandsLegacy"

\* executor.executeMultipleCommandsLegacy(commands, options)
executeMultipleCommandsLegacy ==
  /\ stack = <<>> /\ outcome = <<>>
  /\ \E commands \in CommandLists, options \in LegacyOptions :
       stack' = <<Frame("executeMultipleCommandsLegacy", commands, options,
                        PassedOptions(options), "loop", <<>>)>>
  /\ UNCHANGED <<dryRun, stored, outcome>>

\* for (const command of commands): the body calls executeCommand with the
\* options of the batch
LegacyLoopTop ==
  /\ At("loop") /\ IsLegacy(Top)
  /\ IF Top.i > Len(Top.commands)
       THEN SetTop([Top EXCEPT !.pc = "return"])
       ELSE SetTop([Top EXCEPT !.cmdOptions = PassedOptions(Top.options),
                               !.pc = "exec"])
  /\ UNCHANGED <<dryRun, stored, outcome>>

LegacyTakeResult_StopsAnyway ==
  /\ At("result") /\ IsLegacy(Top)
  /\ LET result == Top.result[1]
         pushed == [Top EXCEPT !.results = Append(@, result),
                               !.resultOf = Append(@, Top.i),
                               !.result = <<>>,
                               !.error = <<>>,
                               !.dialogue = {}]
     IN  IF ~result.success
           THEN SetTop([pushed EXCEPT !.pc = "return"])
           ELSE SetTop([pushed EXCEPT !.i = @ + 1, !.pc = "loop"])
  /\ UNCHANGED <<dryRun, stored, outcome>>

\* results.push(result) and the break of the legacy loop
LegacyTakeResult ==
  /\ At("result") /\ IsLegacy(Top)
  /\ LET result == Top.result[1]
         pushed == [Top EXCEPT !.results = Append(@, result),
                               !.resultOf = Append(@, Top.i),
                               !.result = <<>>,
                               !.error = <<>>,
                               !.dialogue = {}]
     IN  IF ~result.success /\ ~Top.options.continueOnError
           THEN SetTop([pushed EXCEPT !.pc = "return"])
           ELSE SetTop([pushed EXCEPT !.i = @ + 1, !.pc = "loop"])
  /\ UNCHANGED <<dryRun, stored, outcome>>

\* the loops of the batches a recovery dialogue starts below a legacy batch
InnerLoopTop == stack # <<>> /\ ~IsLegacy(Top) /\ LoopTop

InnerTakeResult == stack # <<>> /\ ~IsLegacy(Top) /\ TakeResult

LegacyNext ==
  \/ executeMultipleCommandsLegacy
  \/ LegacyLoopTop
  \/ LegacyTakeResult
  \/ InnerLoopTop
  \/ InnerTakeResult
  \/ setDryRun
  \/ CallerResumes
  \/ AskAction
  \/ AskContinue
  \/ Return
  \/ DangerCheck
  \/ confirmExecution
  \/ DryRunCheck
  \/ ProcessExit
  \/ Catch
  \/ ReturnFailed
  \/ suggestErrorSolution
  \/ getUserSolutionChoice
  \/ CustomSolution
  \/ getSpecificSolution
  \/ executeSpecificSolution

LegacySpec == Init /\ [][LegacyNext]_vars

(***************************************************************************)
(* Vocabulary of the properties.                                           *)
(***************************************************************************)
\* every activation in sight: those on the stack and the one just delivered
Activations ==
  {stack[k] : k \in DOMAIN stack}
    \cup (IF outcome = <<>> THEN {} ELSE {outcome[1].frame})

IsBatch(f, mode) ==
  f.fn = "executeMultipleCommands" /\ f.options.mode = <<mode>>

\* the identity sequence 1, 2, ..., n
Identity(n) == [k \in 1..n |-> k]

\* the results an activation holds for the command at index: those pushed
\* and the one executeCommand has just produced
ResultsFor(f, index) ==
  {f.results[k] : k \in {j \in 1..Len(f.results) : f.resultOf[j] = index}}
    \cup (IF f.pc = "result" /\ f.i = index THEN {f.result[1]} ELSE {})

\* the message of the error execa raised for the command at index
OriginalMessage(f, index) ==
  IF Did(f, index, "spawnError") THEN SpawnErrorMessage ELSE NonZeroExitMessage

\* the delivered activation, when the outermost call has returned
Returned(f) ==
  /\ outcome # <<>>
  /\ outcome[1].status = "returned"
  /\ outcome[1].frame = f

\* number of recovery dialogues open at once
RecoveryDepth ==
  Cardinality({k \in DOMAIN stack : stack[k].pc \in RecoveryPcs})

\* the child process spawned for the command at index has not ended yet
Outstanding(f, index) ==
  /\ Did(f, index, "execa")
  /\ ~Did(f, index, "spawnError")
  /\ ~Did(f, index, "exit0")
  /\ ~Did(f, index, "nonZeroExit")

\* the kinds a result is counted under
KindsOf(r) ==
  {kind \in {"Succeeded", "Failed", "Cancelled", "Skipped", "PreviewedOnly"} :
     \/ kind = "Succeeded" /\ IsSucceeded(r)
     \/ kind = "Failed" /\ IsFailed(r)
     \/ kind = "Cancelled" /\ IsCancelled(r)
     \/ kind = "Skipped" /\ IsSkipped(r)
     \/ kind = "PreviewedOnly" /\ IsPreviewedOnly(r)}

\* every result an activation holds: those pushed and the one just produced
AllResults(f) ==
  {f.results[k] : k \in 1..Len(f.results)}
    \cup {f.result[k] : k \in 1..Len(f.result)}

\* the options getUserSolutionChoice can show: those parsed from a response
\* that has a numbered line
ParsedOptions ==
  {parseSolutionOptions(response) :
     response \in {r \in Responses1 :
                     \E k \in 1..Len(SplitLines(r)) :
                       NumberedMatch(SplitLines(r)[k])}}

\* the command lists executeSpecificSolution can extract from a response
ExtractedSolutions == {solutionCommands(response) : response \in Responses2}

\* the maximal runs of characters that are not whitespace, in order
RECURSIVE MaximalRuns(_)
MaximalRuns(s) ==
  IF s = <<>> THEN <<>>
  ELSE IF IsSpace(s[1]) THEN MaximalRuns(Tail(s))
  ELSE LET stops == {k \in 1..Len(s) : IsSpace(s[k])}
           n == IF stops = {} THEN Len(s) ELSE Min(stops) - 1
       IN  <<SubSeq(s, 1, n)>> \o MaximalRuns(SubSeq(s, n + 1, Len(s)))

\* the positions of the quote characters of a string
QuotesOf(s) == {k \in 1..Len(s) : s[k] \in {"\"", "'"}}

\* t occurs in s as a run of adjacent characters
IsInfix(t, s) ==
  \E p \in 0..(Len(s) - Len(t)) : SubSeq(s, p + 1, p + Len(t)) = t

\* every command an activation can hold, and those that match a danger
\* pattern
AllCommands ==
  Commands \cup {CmdPush}
    \cup UNION {{sol[k] : k \in 1..Len(sol)} : sol \in ExtractedSolutions}

DangerousCommands == {c \in AllCommands : isDangerousCommand(c)}

(***************************************************************************)
(* Properties.                                                             *)
(***************************************************************************)
\* C1: a recovery dialogue is never started from inside another recovery
\* dialogue: at most one dialogue is open at any time, and no batch started
\* by a dialogue (an activation above the outermost one) ever calls
\* suggestErrorSolution for one of its commands.
C1_NoNestedRecovery ==
  /\ RecoveryDepth <= 1
  /\ \A k \in 2..Len(stack) : \A index \in 1..Len(stack[k].commands) :
       ~Did(stack[k], index, "suggest")

\* C2: in auto mode commands are attempted in list order and the loop stops
\* at the first Failed or Cancelled result: result k is for command k, only
\* the last result can be Failed or Cancelled, after such a result the
\* batch returns at once with exactly that many results, and nothing was
\* asked, confirmed or spawned for a command behind the current one.
C2_AutoStopsAtFirstFailure ==
  \A f \in Activations :
    IsBatch(f, "auto") =>
      /\ f.resultOf = Identity(Len(f.results))
      /\ Len(f.results) \in {f.i - 1, f.i}
      /\ \A k \in 1..(Len(f.results) - 1) :
           ~IsFailed(f.results[k]) /\ ~IsCancelled(f.results[k])
      /\ \A k \in 1..Len(f.results) :
           IsFailed(f.results[k]) \/ IsCancelled(f.results[k]) =>
             f.pc = "return" /\ k = Len(f.results) /\ f.i = k
      /\ \A e \in f.log : e[1] <= f.i

\* C2 witness: with the config module as it is in the repository, an auto
\* batch of two commands returned one result, the Cancelled result of its
\* first command, and nothing was done for the second command.
C2_Witness ==
  \E f \in Activations :
    /\ Returned(f) /\ IsBatch(f, "auto")
    /\ config = "nomethod"
    /\ f.commands = <<CmdReset, CmdStatus>>
    /\ Len(f.results) = 1 /\ IsCancelled(f.results[1])
    /\ f.log = {<<1, "confirmShown">>, <<1, "declined">>}

\* C3: a batch in dry mode returns at once one PreviewedOnly result per
\* command, in input order, and nothing is prompted, confirmed or spawned
\* for any of its commands, dangerous or not.
C3_PreviewRunsNothing ==
  \A f \in Activations :
    IsBatch(f, "dry") =>
      /\ f.pc = "return"
      /\ Len(f.results) = Len(f.commands)
      /\ f.resultOf = Identity(Len(f.commands))
      /\ \A k \in 1..Len(f.results) :
           /\ IsPreviewedOnly(f.results[k])
           /\ f.results[k].command = <<f.commands[k]>>
           /\ ~IsFailed(f.results[k]) /\ ~IsCancelled(f.results[k])
           /\ ~IsSkipped(f.results[k]) /\ ~IsSucceeded(f.results[k])
      /\ f.log = {}
      /\ f.dialogue = {}

\* C3 witness: a dry batch that holds a dangerous command has returned.
C3_Witness ==
  \E f \in Activations :
    /\ Returned(f) /\ IsBatch(f, "dry")
    /\ f.commands = ThreeCommands
    /\ isDangerousCommand(f.commands[3])
    /\ Len(f.results) = 3

\* C4: in every mode, when the danger confirmation of a command is declined
\* the command's result is Cancelled (not Failed, Succeeded or PreviewedOnly),
\* no process is spawned for it and no recovery starts; a command that
\* matches a danger pattern is spawned only after the confirmation was
\* answered yes.
C4_DeclinedIsCancelled ==
  \A f \in Activations : \A index \in 1..Len(f.commands) :
    /\ f.commands[index] \in AllCommands
    /\ Did(f, index, "declined") =>
         /\ f.commands[index] \in DangerousCommands
         /\ ~Did(f, index, "execa")
         /\ ~Did(f, index, "suggest")
         /\ ResultsFor(f, index) # {}
         /\ \A r \in ResultsFor(f, index) :
              /\ IsCancelled(r)
              /\ ~IsFailed(r) /\ ~IsSucceeded(r) /\ ~IsPreviewedOnly(r)
    /\ Did(f, index, "execa") /\ f.commands[index] \in DangerousCommands =>
         Did(f, index, "approved")

\* C4 witness: executeCommand was called with dryRun on a dangerous command,
\* the confirmation was declined and the call returned Cancelled.
C4_Witness ==
  \E f \in Activations :
    /\ Returned(f) /\ f.fn = "executeCommand"
    /\ f.cmdOptions.dryRun
    /\ Did(f, 1, "declined")
    /\ f.results = <<CancelledResult>>

\* C5: the recovery dialogue is started for a command only when its spawn
\* threw or its process exited non-zero, the recovery setting is enabled and
\* skipSuggestion is not set: never for a declined, succeeded, previewed or
\* skipped command, and every result of that command is Failed.
C5_RecoveryOnlyOnFailure ==
  \A f \in Activations : \A index \in 1..Len(f.commands) :
    Did(f, index, "suggest") =>
      /\ config = "enabled"
      /\ ~f.cmdOptions.skipSuggestion
      /\ Did(f, index, "spawnError") \/ Did(f, index, "nonZeroExit")
      /\ ~Did(f, index, "declined")
      /\ ~Did(f, index, "exit0")
      /\ ~Did(f, index, "skip")
      /\ ~IsDryRun(dryRun, f.cmdOptions)
      /\ \A r \in ResultsFor(f, index) : IsFailed(r)

\* C5 witness: a recovery dialogue ran for a command whose process exited
\* non-zero, and the command's result is Failed.
C5_Witness ==
  \E f \in Activations :
    /\ Did(f, 1, "suggest") /\ Did(f, 1, "nonZeroExit")
    /\ config = "enabled"
    /\ \E r \in ResultsFor(f, 1) : IsFailed(r)

\* C6: whatever happens in the recovery dialogue of a command, the error
\* caught for it stays the same while the dialogue is open, and once
\* executeCommand has returned the command has a result, which is Failed
\* with the message of the original error.
C6_RecoveryKeepsFailure ==
  \A f \in Activations : \A index \in 1..Len(f.commands) :
    Did(f, index, "suggest") =>
      /\ \A r \in ResultsFor(f, index) :
           r = FailedResult(OriginalMessage(f, index))
      /\ f.i = index /\ f.pc \in RecoveryPcs \cup {"recovered"} =>
           f.error = <<OriginalMessage(f, index)>>
      /\ f.i > index \/ f.pc \in {"result", "askContinue", "return"} =>
           ResultsFor(f, index) # {}

\* C6 witness: the inner batch of a recovery dialogue has run and the
\* command that started the dialogue returns Failed with its own message.
C6_Witness ==
  \E f \in Activations :
    /\ f.pc = "result"
    /\ "innerBatch" \in f.dialogue
    /\ Did(f, f.i, "spawnError")
    /\ f.result = <<FailedResult(SpawnErrorMessage)>>

\* C7: when the generator fails in phase 1 or in phase 2 the recovery
\* dialogue ends there: nothing is shown, generated or run after the
\* failure, the call does not reject, and what executeCommand returns is
\* Failed with the message of the original error.
C7_GeneratorFailureEndsDialogue ==
  \A f \in Activations :
    /\ "generate1Failed" \in f.dialogue =>
         f.dialogue = {"generate1", "generate1Failed"}
    /\ "generate2Failed" \in f.dialogue =>
         f.dialogue = {"generate1", "choiceShown", "generate2",
                       "generate2Failed"}
    /\ "generate1Failed" \in f.dialogue \/ "generate2Failed" \in f.dialogue =>
         /\ f.pc \in {"recovered", "result"}
         /\ f.error = <<OriginalMessage(f, f.i)>>
         /\ f.pc = "result" =>
              f.result = <<FailedResult(OriginalMessage(f, f.i))>>

\* C7 witness: the generator failed in phase 2 and executeCommand returns
\* the Failed result of the command.
C7_Witness ==
  \E f \in Activations :
    /\ f.pc = "result"
    /\ "generate2Failed" \in f.dialogue
    /\ IsFailed(f.result[1])

\* C8: the results of a batch are an order-preserving prefix of its
\* commands: result k is the result of command k, there are never more
\* results than commands, and a batch that returns without a halt (no
\* Failed or Cancelled result in auto mode, no quit and no declined
\* continue in interactive mode) holds exactly one result per command.
C8_ResultsArePrefix ==
  \A f \in Activations :
    f.fn = "executeMultipleCommands"
      /\ ModeOf(f.options) \in {"dry", "auto", "interactive"} =>
        /\ f.resultOf = Identity(Len(f.results))
        /\ Len(f.results) <= Len(f.commands)
        /\ LET halted ==
                 \/ /\ ModeOf(f.options) = "auto"
                    /\ \E k \in 1..Len(f.results) :
                         IsFailed(f.results[k]) \/ IsCancelled(f.results[k])
                 \/ /\ ModeOf(f.options) = "interactive"
                    /\ \E e \in f.log : e[2] \in {"quit", "continueDeclined"}
           IN  f.pc = "return" /\ ~halted =>
                 Len(f.results) = Len(f.commands)

\* C8 witness: an interactive batch of three commands returned three
\* results of three kinds: an execution, a skip and a declined confirmation.
C8_Witness ==
  \E f \in Activations :
    /\ Returned(f) /\ IsBatch(f, "interactive")
    /\ f.commands = ThreeCommands
    /\ Len(f.results) = 3
    /\ IsSucceeded(f.results[1])
    /\ IsSkipped(f.results[2])
    /\ IsCancelled(f.results[3])

\* C9: in interactive mode quit at command k ends the batch at once: the
\* batch returns with exactly the results of commands 1..k-1, command k
\* was only asked about, and no later command was asked about, confirmed
\* or spawned.
C9_QuitHalts ==
  \A f \in Activations : \A index \in 1..Len(f.commands) :
    Did(f, index, "quit") =>
      /\ IsBatch(f, "interactive")
      /\ f.pc = "return"
      /\ f.i = index
      /\ f.resultOf = Identity(index - 1)
      /\ \A e \in f.log :
           /\ e[1] <= index
           /\ e[1] = index => e[2] \in {"asked", "quit"}

\* C9 witness: quit on command 2 of 3 returned exactly one result.
C9_Witness ==
  \E f \in Activations :
    /\ Returned(f) /\ IsBatch(f, "interactive")
    /\ f.commands = ThreeCommands
    /\ Did(f, 2, "quit")
    /\ Len(f.results) = 1

\* C10: a call never rejects; once executeCommand is over for a command
\* whose spawn threw or whose process exited non-zero the command's result
\* is Failed with the message of that error, and for a command whose
\* process exited 0 it is Succeeded.
C10_FailureIsReturned ==
  /\ outcome # <<>> => outcome[1].status = "returned"
  /\ \A f \in Activations : \A index \in 1..Len(f.commands) :
       f.i > index \/ f.pc \in {"result", "askContinue", "return"} =>
         /\ Did(f, index, "spawnError") \/ Did(f, index, "nonZeroExit") =>
              ResultsFor(f, index) = {FailedResult(OriginalMessage(f, index))}
         /\ Did(f, index, "exit0") =>
              ResultsFor(f, index) = {SuccessResult}

\* C11: at most one child process is outstanding at any time, inner batches
\* of a recovery dialogue included: a process is outstanding only for the
\* current command of the innermost activation, which then does nothing but
\* await it, all results of the earlier commands are recorded by then, and
\* a call that has ended leaves no process behind.
C11_OneProcessAtATime ==
  /\ \A k \in DOMAIN stack : \A index \in 1..Len(stack[k].commands) :
       Outstanding(stack[k], index) =>
         /\ k = Len(stack)
         /\ stack[k].pc = "running"
         /\ stack[k].i = index
         /\ stack[k].fn = "executeMultipleCommands" =>
              stack[k].resultOf = Identity(index - 1)
  /\ outcome # <<>> =>
       \A index \in 1..Len(outcome[1].frame.commands) :
         ~Outstanding(outcome[1].frame, index)
  /\ \A k \in DOMAIN stack : \A e \in stack[k].log :
       e[2] = "execa" => e[1] <= Len(stack[k].results) + 1

\* C11 witness: the process of the second command of an auto batch is
\* running after the first command's process exited and its result was
\* recorded.
C11_Witness ==
  /\ Len(stack) = 1
  /\ IsBatch(Top, "auto")
  /\ Top.pc = "running" /\ Top.i = 2
  /\ Outstanding(Top, 2)
  /\ Did(Top, 1, "exit0")
  /\ Len(Top.results) = 1

\* C12: the chain of recovery dialogues and inner batches ends after one
\* link: a batch started by a recovery dialogue never gets as far as
\* offering a further batch for one of its own failed commands (its
\* activation never shows the execution-mode prompt), so the depth of the
\* calls is bounded and every call comes back.
C12_RecoveryChainEnds ==
  \A k \in 2..Len(stack) :
    /\ "modeShown" \notin stack[k].dialogue
    /\ stack[k].pc # "modePrompt"
    /\ stack[k].solution = <<>>

\* C13: in interactive mode the continue question is shown for a command
\* exactly when the user chose execute and the result is Failed (never after
\* a Succeeded, Skipped, Cancelled or PreviewedOnly result); declining ends
\* the batch with that Failed result as its last result, accepting moves on
\* to the next command.
C13_ContinueAfterFailure ==
  \A f \in Activations : \A index \in 1..Len(f.commands) :
    /\ Did(f, index, "continueShown") =>
         /\ IsBatch(f, "interactive")
         /\ Did(f, index, "execute") /\ ~Did(f, index, "skip")
         /\ Len(f.results) >= index
         /\ IsFailed(f.results[index])
         /\ ~IsSucceeded(f.results[index]) /\ ~IsSkipped(f.results[index])
         /\ ~IsCancelled(f.results[index])
         /\ ~IsPreviewedOnly(f.results[index])
    /\ IsBatch(f, "interactive") /\ Len(f.results) >= index
         /\ IsFailed(f.results[index]) =>
           Did(f, index, "continueShown")
    /\ Did(f, index, "continueDeclined") =>
         /\ Did(f, index, "continueShown")
         /\ f.pc = "return"
         /\ f.i = index
         /\ Len(f.results) = index
    /\ Did(f, index, "continueShown") /\ ~Did(f, index, "continueDeclined") =>
         \/ f.i = index /\ f.pc = "askContinue"
         \/ f.i > index

\* C13 witness: the first command failed and the user went on, the second
\* failed and the user declined: the batch returned these two results.
C13_Witness ==
  \E f \in Activations :
    /\ Returned(f) /\ IsBatch(f, "interactive")
    /\ f.commands = ThreeCommands
    /\ Did(f, 1, "continueShown") /\ ~Did(f, 1, "continueDeclined")
    /\ Did(f, 2, "continueDeclined")
    /\ Len(f.results) = 2
    /\ IsFailed(f.results[1]) /\ IsFailed(f.results[2])

\* C14: in interactive mode skip records exactly one result for the
\* command, a Skipped result naming it, and the loop goes on with the next
\* command; for a skipped command nothing but the action prompt happens: no
\* danger confirmation, no spawn, no recovery.
C14_SkipRecordsSkipped ==
  \A f \in Activations : \A index \in 1..Len(f.commands) :
    Did(f, index, "skip") =>
      /\ IsBatch(f, "interactive")
      /\ Cardinality({k \in 1..Len(f.results) : f.resultOf[k] = index}) = 1
      /\ ResultsFor(f, index) = {SkippedResult(f.commands[index])}
      /\ \A r \in ResultsFor(f, index) : IsSkipped(r)
      /\ \A e \in f.log : e[1] = index => e[2] \in {"asked", "skip"}
      /\ f.i > index
      /\ f.pc = "return" /\ f.i = index + 1 /\ index < Len(f.commands) =>
           Did(f, index + 1, "asked")

\* C14 witness: the first and the third command, a dangerous one, were
\* skipped and the second was asked about in between.
C14_Witness ==
  \E f \in Activations :
    /\ Returned(f) /\ IsBatch(f, "interactive")
    /\ f.commands = ThreeCommands
    /\ isDangerousCommand(f.commands[3])
    /\ Did(f, 1, "skip") /\ Did(f, 2, "asked") /\ Did(f, 3, "skip")
    /\ Len(f.results) = 3

\* C15: every result executeCommand or executeMultipleCommands produces is
\* of exactly one of the five kinds, and the five counts of
\* printExecutionSummary over the results of a call add up to the number of
\* results.
C15_OneKindPerResult ==
  \A f \in Activations :
    /\ \A r \in AllResults(f) : Cardinality(KindsOf(r)) = 1
    /\ LET summary == printExecutionSummary(f.results)
       IN  /\ summary.total = Len(f.results)
           /\ summary.successful + summary.failed + summary.cancelled
                + summary.skipped + summary.dryRun = summary.total

\* C15 witness: with the dry-run flag set an interactive batch returned a
\* PreviewedOnly, a Skipped and a Cancelled result, counted once each.
C15_Witness ==
  \E f \in Activations :
    /\ Returned(f) /\ IsBatch(f, "interactive")
    /\ Len(f.results) = 3
    /\ IsPreviewedOnly(f.results[1])
    /\ IsSkipped(f.results[2])
    /\ IsCancelled(f.results[3])
    /\ printExecutionSummary(f.results) =
         [total |-> 3, successful |-> 0, failed |-> 0, cancelled |-> 1,
          skipped |-> 1, dryRun |-> 1]

\* C16: every result, of every kind, references the command it originated
\* from: result k of an activation carries the command it was produced for,
\* and so does the result executeCommand has just produced.
C16_ResultNamesCommand ==
  \A f \in Activations :
    /\ \A k \in 1..Len(f.results) :
         f.results[k].command = <<f.commands[f.resultOf[k]]>>
    /\ f.pc = "result" => f.result[1].command = <<Command(f)>>

\* C17: when no line of the phase-1 response parses as a numbered option the
\* recovery dialogue ends there: no selection prompt, no second generator
\* call, no inner batch, and executeCommand returns Failed with the message
\* of the original error; a selection prompt is shown only for the options
\* of a response that has a numbered line.
C17_UnparsedResponseEndsRecovery ==
  \A f \in Activations :
    /\ "unparsed" \in f.dialogue =>
         /\ f.dialogue = {"generate1", "unparsed"}
         /\ f.pc \in {"recovered", "result"}
         /\ f.choices = <<>> /\ f.solution = <<>>
         /\ f.error = <<OriginalMessage(f, f.i)>>
         /\ f.pc = "result" =>
              f.result = <<FailedResult(OriginalMessage(f, f.i))>>
    /\ f.pc \in RecoveryPcs \ {"gen1"} =>
         /\ "choiceShown" \in f.dialogue
         /\ f.choices \in ParsedOptions
         /\ Len(f.choices) > 0

\* C17 witness: the response had no numbered line and executeCommand returns
\* the Failed result of the command.
C17_Witness ==
  \E f \in Activations :
    /\ f.pc = "result"
    /\ f.dialogue = {"generate1", "unparsed"}
    /\ \E response \in Responses1 : parseSolutionOptions(response) = <<>>
    /\ IsFailed(f.result[1])

\* C18: cancel at the option selection ends the recovery dialogue with no
\* further action: after it no generator call is made, no input or mode
\* prompt is shown and no batch is started by that dialogue, and
\* executeCommand goes on to return its Failed result.
C18_CancelEndsRecovery ==
  \A k \in 1..Len(stack) + Len(outcome) :
    LET f == IF k <= Len(stack) THEN stack[k] ELSE outcome[1].frame
    IN  "choiceCancelled" \in f.dialogue =>
          /\ f.dialogue = {"generate1", "choiceShown", "choiceCancelled"}
          /\ f.pc \in {"recovered", "result"}
          /\ f.solution = <<>>
          /\ k >= Len(stack)
          /\ f.pc = "result" => IsFailed(f.result[1])

\* C18 witness: the user cancelled at the option selection and
\* executeCommand returns the Failed result.
C18_Witness ==
  \E f \in Activations :
    /\ f.pc = "result"
    /\ "choiceCancelled" \in f.dialogue
    /\ "generate2" \notin f.dialogue
    /\ f.result = <<FailedResult(OriginalMessage(f, f.i))>>

\* C19: a recovery dialogue runs an inner batch only on the git commands
\* extracted from the phase-2 response, at least one, and in the mode the
\* user picked at the mode prompt (auto, interactive or dry); when no
\* command is extracted the mode prompt is not shown and nothing is run,
\* and after cancel at the mode prompt nothing is run.
C19_InnerBatchNeedsCommandsAndMode ==
  /\ \A k \in 2..Len(stack) :
       /\ stack[k - 1].pc = "innerBatch"
       /\ "modeShown" \in stack[k - 1].dialogue
       /\ stack[k].fn = "executeMultipleCommands"
       /\ stack[k].options.mode \in {<<"auto">>, <<"interactive">>, <<"dry">>}
       /\ stack[k].commands = stack[k - 1].solution
       /\ Len(stack[k].commands) > 0
       /\ stack[k].commands \in ExtractedSolutions
  /\ \A f \in Activations :
       /\ f.pc = "modePrompt" => Len(f.solution) > 0
       /\ "innerBatch" \in f.dialogue =>
            "modeShown" \in f.dialogue /\ "modeCancelled" \notin f.dialogue
       /\ "noCommands" \in f.dialogue =>
            /\ "modeShown" \notin f.dialogue
            /\ "innerBatch" \notin f.dialogue
            /\ f.pc \in {"recovered", "result"}
       /\ "modeCancelled" \in f.dialogue =>
            /\ "innerBatch" \notin f.dialogue
            /\ f.pc \in {"recovered", "result"}

\* C19 witness: the user picked dry at the mode prompt and the inner batch
\* holds the preview of the one command extracted from the response.
C19_Witness ==
  /\ Len(stack) = 2
  /\ stack[1].pc = "innerBatch"
  /\ IsBatch(stack[2], "dry")
  /\ stack[2].commands = <<CmdReset>>
  /\ stack[2].results = <<DryRunResult(CmdReset)>>

\* C20: parseCommand('git commit -m "fix: a b"') is
\* ["git","commit","-m","fix: a b"] and parseCommand("git push origin main")
\* is ["git","push","origin","main"]; a quoted span that contains a space is
\* kept within one token; and for a command without quotes the tokens are
\* exactly the maximal runs of non-whitespace characters, in order.
C20_TokensAreRuns ==
  \A f \in Activations :
    f.fn = "parseCommand" /\ f.pc = "return" =>
      LET command == f.commands[1]
          args == f.result[1]
          quotes == QuotesOf(command)
      IN  /\ command = CmdCommit =>
               args = << <<"g","i","t">>, <<"c","o","m","m","i","t">>,
                         <<"-","m">>, <<"f","i","x",":"," ","a"," ","b">> >>
          /\ command = CmdPush =>
               args = << <<"g","i","t">>, <<"p","u","s","h">>,
                         <<"o","r","i","g","i","n">>, <<"m","a","i","n">> >>
          /\ Cardinality(quotes) = 2 =>
               LET span == SubSeq(command, Min(quotes) + 1, Max(quotes) - 1)
               IN  (\E k \in 1..Len(span) : span[k] = " ")
                     /\ Trim(span) # <<>> =>
                       \E k \in 1..Len(args) : IsInfix(Trim(span), args[k])
          /\ quotes = {} => args = MaximalRuns(command)

\* C21: parseCommand splits at every whitespace character outside a quoted
\* span (no token of an unquoted command holds whitespace, and the tokens
\* put together are the command without its whitespace), strips the
\* delimiting quote characters, takes an unterminated quote to extend to
\* the end of the string, and returns no token for an empty or
\* whitespace-only command.
C21_SplitsAtWhitespace ==
  \A f \in Activations :
    f.fn = "parseCommand" /\ f.pc = "return" =>
      LET command == f.commands[1]
          args == f.result[1]
          quotes == QuotesOf(command)
          kinds == {command[q] : q \in quotes}
      IN  /\ quotes = {} =>
               /\ \A k \in 1..Len(args) : \A j \in 1..Len(args[k]) :
                    ~IsSpace(args[k][j])
               /\ args = MaximalRuns(command)
          /\ Cardinality(kinds) = 1 =>
               \A k \in 1..Len(args) : \A j \in 1..Len(args[k]) :
                 args[k][j] \notin kinds
          /\ Cardinality(quotes) = 1 =>
               LET rest == SubSeq(command, Min(quotes) + 1, Len(command))
               IN  Trim(rest) # <<>> =>
                     /\ args # <<>>
                     /\ IsInfix(Trim(rest), args[Len(args)])
          /\ (\A k \in 1..Len(command) : IsSpace(command[k])) => args = <<>>

\* the generated commands that hold the words of a pattern next to each other,
\* one or more whitespace characters apart
HoldsPattern(words, sep) ==
  /\ sep # <<>>
  /\ \E k \in 1..Len(dangerousPatterns) :
       LET pattern == dangerousPatterns[k]
       IN  \E at \in 0..(Len(words) - Len(pattern)) :
             \A j \in 1..Len(pattern) : words[at + j] = pattern[j]

MatchingInputs ==
  {JoinWords(words, sep) :
     words \in {w \in WordLists : \E sep \in Separators : HoldsPattern(w, sep)},
     sep \in Separators \ {<<>>}}

GeneratedInputs == {JoinWords(words, sep) : words \in WordLists, sep \in Separators}

C23_BatchReadsNoEngineState ==
  \A f \in Activations :
    IsBatch(f, "auto") \/ IsBatch(f, "interactive") =>
      \A r \in AllResults(f) : ~IsPreviewedOnly(r)

\* the place of a step in the recovery dialogue
Phase(pc) ==
  CASE pc = "gen1" -> 1
    [] pc = "choose" -> 2
    [] pc = "input" -> 3
    [] pc = "gen2" -> 4
    [] pc = "modePrompt" -> 5
    [] pc = "innerBatch" -> 6
    [] OTHER -> 7

\* the events that end a recovery dialogue
DialogueEnds ==
  {"generate1Failed", "unparsed", "choiceCancelled", "generate2Failed",
   "noCommands", "modeCancelled", "innerBatch"}

\* every step of an activation inside a dialogue moves it to a later phase
DialogueAdvances ==
  \A k \in DOMAIN stack \cap DOMAIN stack' :
    stack[k].pc \in RecoveryPcs /\ stack'[k] # stack[k] =>
      /\ stack'[k].pc \in RecoveryPcs \cup {"recovered"}
      /\ Phase(stack'[k].pc) > Phase(stack[k].pc)

\* the events of a dialogue came in the order of the phases, and a Failed
\* result is there only once the dialogue has ended
DialogueInOrder ==
  \A f \in Activations :
    /\ f.dialogue # {} => "generate1" \in f.dialogue
    /\ "generate2" \in f.dialogue => "choiceShown" \in f.dialogue
    /\ "modeShown" \in f.dialogue => "generate2" \in f.dialogue
    /\ "innerBatch" \in f.dialogue => "modeShown" \in f.dialogue
    /\ f.pc = "result" /\ IsFailed(f.result[1]) /\ f.dialogue # {} =>
         /\ f.dialogue \cap DialogueEnds # {}
         /\ f = Top \/ Returned(f)

\* C24: a recovery dialogue goes through its phases in the fixed order
\* phase-1 generator call, option selection, free-text entry (optional),
\* phase-2 generator call, mode prompt, inner batch, each at most once, so
\* that a failed command costs at most two generator calls and one inner
\* batch; the dialogue has ended when executeCommand hands the Failed result
\* to the batch loop.
C24_DialogueOrder == []DialogueInOrder /\ [][DialogueAdvances]_vars

\* a Failed result is handed over after a dialogue that went through both
\* generator calls, the mode prompt and an inner batch
C24_Witness ==
  \E f \in Activations :
    /\ f.pc = "result" /\ IsFailed(f.result[1])
    /\ {"generate1", "choiceShown", "generate2", "modeShown", "innerBatch"}
         \subseteq f.dialogue
    /\ Len(f.results) = 1

\* C25: executeCommand checks danger first, the preview second and spawns
\* last: called for a preview on a dangerous command it shows the
\* confirmation before anything else, returns Cancelled when the user
\* declines and PreviewedOnly when the user accepts, and never calls execa.
C25_DangerBeforePreview ==
  \A f \in Activations :
    (/\ f.fn = "executeCommand"
     /\ IsDryRun(dryRun, f.cmdOptions)
     /\ f.commands[1] \in DangerousCommands) =>
         /\ ~Did(f, 1, "execa")
         /\ f.pc # "exec" => Did(f, 1, "confirmShown")
         /\ f.pc \notin {"exec", "confirm"} =>
              Did(f, 1, "declined") # Did(f, 1, "approved")
         /\ f.pc = "dryCheck" => Did(f, 1, "approved")
         /\ \A r \in AllResults(f) :
              /\ Did(f, 1, "declined") => IsCancelled(r) /\ ~IsPreviewedOnly(r)
              /\ Did(f, 1, "approved") => IsPreviewedOnly(r) /\ ~IsCancelled(r)
         /\ f.pc \in {"exec", "confirm", "dryCheck", "result", "return"}

\* a preview of a dangerous command was confirmed and returned PreviewedOnly
C25_Witness ==
  \E f \in Activations :
    /\ Returned(f) /\ f.fn = "executeCommand"
    /\ f.cmdOptions.dryRun
    /\ Did(f, 1, "approved")
    /\ f.results = <<DryRunResult(CmdReset)>>

\* the activations of the calls a caller of the executor made
Outermost ==
  {stack[k] : k \in DOMAIN stack \cap {1}}
    \cup (IF outcome = <<>> THEN {} ELSE {outcome[1].frame})

\* C26: skipSuggestion is an option of one call and is kept nowhere else: with
\* recovery enabled, every command of a batch the caller started whose spawn
\* threw or whose process exited non-zero gets a recovery dialogue of its
\* own, also after an earlier dialogue of the same batch has run its inner
\* batch, and every call a caller makes starts with the flag as passed.
C26_FlagDoesNotLeak ==
  \A f \in Activations :
    f \in Outermost /\ f.fn = "executeMultipleCommands" =>
      /\ ~f.options.skipSuggestion
      /\ ~f.cmdOptions.skipSuggestion
      /\ config = "enabled" =>
           \A index \in 1..Len(f.commands) :
             (/\ Did(f, index, "spawnError") \/ Did(f, index, "nonZeroExit")
              /\ ~(f.i = index /\ f.pc = "catch")) =>
                  Did(f, index, "suggest")

\* in a step-by-step batch the first command failed, its dialogue has
\* ended, the user chose to continue, and the second command failed and got
\* a dialogue of its own
C26_Witness ==
  \E f \in Activations :
    /\ IsBatch(f, "interactive")
    /\ f \in Outermost
    /\ Did(f, 1, "suggest") /\ Did(f, 1, "continueShown")
    /\ Len(f.results) = 1 /\ IsFailed(f.results[1])
    /\ Did(f, 2, "nonZeroExit") /\ Did(f, 2, "suggest")
    /\ f.i = 2 /\ f.pc = "choose"

\* the commands of the git command lines of a response, in order
RECURSIVE CommandsOfLines(_)
CommandsOfLines(lines) ==
  IF lines = <<>> THEN <<>>
  ELSE (CHOOSE r \in ResponseLines : r.line = lines[1]).command
         \o CommandsOfLines(Tail(lines))

\* C27: the command list extracted from a phase-2 response holds, in order,
\* one command for every line of the response that is a git command line
\* (optionally preceded by up to three backticks), cleaned of backticks and
\* newlines, and nothing else: the text of a line that is no git command
\* line never gets into the list the inner batch is run on.
C27_OnlyGitLinesExtracted ==
  \A f \in Activations :
    f.fn = "executeSpecificSolution" /\ f.pc = "return" =>
      f.solution = CommandsOfLines(SplitLines(f.commands[1]))

\* the line begins with a number followed by a dot
BeginsWithNumberAndDot(line) ==
  \E n \in 1..(Len(line) - 1) :
    /\ \A k \in 1..n : IsDigit(line[k])
    /\ line[n + 1] = "."

\* ... and the dot is followed by at least one more character
HasRemainder(line) ==
  \E n \in 1..(Len(line) - 2) :
    /\ \A k \in 1..n : IsDigit(line[k])
    /\ line[n + 1] = "."

\* the numbered lines (with a remainder, or as worded), in order
RECURSIVE SelectLines(_, _)
SelectLines(lines, withRemainder) ==
  IF lines = <<>> THEN <<>>
  ELSE (IF (IF withRemainder THEN HasRemainder(Head(lines))
            ELSE BeginsWithNumberAndDot(Head(lines)))
          THEN <<Head(lines)>> ELSE <<>>)
         \o SelectLines(Tail(lines), withRemainder)

\* the text has the form  title: description
IsTitled(text) ==
  \E c \in 2..(Len(text) - 1) : text[c] = ":"

\* option is what the claim says for a numbered line
OptionFitsLine(option, line) ==
  LET text == option.fullText
  IN  /\ text # <<>> => IsInfix(text, removeMarkdown(line)) \/ IsInfix(text, line)
      /\ IF IsTitled(text)
           THEN \E c \in 2..(Len(text) - 1) :
                  /\ text[c] = ":"
                  /\ \A b \in 2..(c - 1) : text[b] # ":"
                  /\ option.title = Trim(SubSeq(text, 1, c - 1))
                  /\ option.description = Trim(SubSeq(text, c + 1, Len(text)))
                  /\ option.title # <<>> /\ option.description # <<>>
           ELSE /\ option.description = text
                /\ IF Len(text) <= 40
                     THEN option.title = text
                     ELSE /\ Len(option.title) <= 40
                          /\ Len(option.title) > 3
                          /\ SubSeq(option.title, Len(option.title) - 2,
                                    Len(option.title)) = <<".", ".", ".">>
                          /\ SubSeq(option.title, 1, Len(option.title) - 3)
                               = SubSeq(text, 1, Len(option.title) - 3)

OptionsFitLines(options, lines) ==
  /\ Len(options) = Len(lines)
  /\ \A k \in 1..Len(options) : OptionFitsLine(options[k], lines[k])

\* C28: parseSolutionOptions returns one option per line of the response
\* that begins with a number and a dot followed by at least one more
\* character, in line order; a text of the form title: description is split
\* into the two parts, any other text is the description, and is the title
\* too if it has at most 40 characters, else the title is a prefix of it
\* ending in an ellipsis, at most 40 characters in all.
C28_OptionPerNumberedLine ==
  \A f \in Activations :
    f.fn = "parseSolutionOptions" /\ f.pc = "return" =>
      OptionsFitLines(f.choices,
                      SelectLines(SplitLines(f.commands[1]), TRUE))

\* C28 as worded: one option per line that begins with a number followed by
\* a dot, whatever follows the dot.
C28_OptionPerLineWithNumberAndDot ==
  \A f \in Activations :
    f.fn = "parseSolutionOptions" /\ f.pc = "return" =>
      OptionsFitLines(f.choices,
                      SelectLines(SplitLines(f.commands[1]), FALSE))

\* a response of a titled line, a line nothing follows the dot of and a line
\* of 41 characters gave two options, the second with a title of 40
\* characters ending in an ellipsis
C28_Witness ==
  \E f \in Activations :
    /\ f.fn = "parseSolutionOptions" /\ f.pc = "return"
    /\ Len(SplitLines(f.commands[1])) = 3
    /\ SplitLines(f.commands[1])[2] = <<"3", ".">>
    /\ Len(f.choices) = 2
    /\ f.choices[1].title = <<"a">> /\ f.choices[1].description = <<"b">>
    /\ f.choices[2].description = Xs(41)
    /\ f.choices[2].title = Xs(37) \o <<".", ".", ".">>

\* C29: executeCommand never rejects: whatever fails inside it, the spawn,
\* the process, a prompt, the reading of the recovery setting or the
\* recovery dialogue, the call ends by returning a result object, so that a
\* call of executeCommand delivers exactly one result and a call of
\* executeMultipleCommands delivers the results collected so far.
C29_NeverRejects ==
  outcome # <<>> =>
    LET f == outcome[1].frame
    IN  /\ outcome[1].status # "rejected"
        /\ f.pc = "return"
        /\ f.fn = "executeCommand" => Len(f.results) = 1
        /\ f.fn = "executeMultipleCommands" =>
             \A index \in 1..Len(f.commands) :
               Did(f, index, "execa") => ResultsFor(f, index) # {}

\* C30: in a step-by-step batch, a dangerous command the user chose to
\* execute and then declined at the danger confirmation gets a Cancelled
\* result, no question whether to continue is asked for it, and the loop goes
\* on to the next command; in an automatic batch the same decline ends the
\* batch at that command.
C30_DeclineDoesNotHaltSteps ==
  \A f \in Activations : \A index \in 1..Len(f.commands) :
    Did(f, index, "declined") /\ f.fn = "executeMultipleCommands" =>
      /\ ResultsFor(f, index) = {CancelledResult}
      /\ ~Did(f, index, "continueShown")
      /\ IsBatch(f, "interactive") =>
           /\ Did(f, index, "execute")
           /\ f.i = index => f.pc = "result"
           /\ f.i >= index
           /\ f.pc = "return" /\ index < Len(f.commands) =>
                Did(f, index + 1, "asked")
      /\ IsBatch(f, "auto") =>
           /\ f.i = index
           /\ f.pc \in {"result", "return"}

\* the first command of a step-by-step batch was declined at the danger
\* confirmation and the second has been run
C30_Witness ==
  \E f \in Activations :
    /\ Returned(f) /\ IsBatch(f, "interactive")
    /\ config = "nomethod"
    /\ f.commands = <<CmdReset, CmdStatus>>
    /\ Did(f, 1, "declined")
    /\ Did(f, 2, "exit0")
    /\ f.results = <<CancelledResult, SuccessResult>>

\* with the flag of the executor set, nothing is spawned and every command
\* that was run is previewed or cancelled
PreviewsWhileFlagSet ==
  dryRun =>
    \A f \in Activations :
      f.fn \in {"executeCommand", "executeMultipleCommands"} =>
        /\ \A index \in 1..Len(f.commands) :
             /\ ~Did(f, index, "execa")
             /\ ~Did(f, index, "suggest")
        /\ \A r \in AllResults(f) :
             /\ IsPreviewedOnly(r) \/ IsCancelled(r) \/ IsSkipped(r)
             /\ IsCancelled(r) =>
                  \E index \in 1..Len(f.commands) : Did(f, index, "declined")
             /\ IsSkipped(r) => IsBatch(f, "interactive")
        /\ (IsBatch(f, "auto") /\ f.pc = "return"
              /\ \A r \in AllResults(f) : IsPreviewedOnly(r)) =>
             Len(f.results) = Len(f.commands)
        /\ (IsBatch(f, "interactive")
              /\ \A r \in AllResults(f) : IsPreviewedOnly(r)) =>
             \A index \in 1..Len(f.commands) : ~Did(f, index, "continueShown")

\* the flag changes only by a call of setDryRun, made while no batch runs
FlagKept ==
  dryRun' # dryRun => stack = <<>> /\ stack' = <<>> /\ outcome = <<>>

\* C31: while the dry-run flag of the executor is set, no call of
\* executeCommand spawns a process in any batch mode: every command run by
\* an automatic or step-by-step batch is PreviewedOnly, or Cancelled when its
\* danger confirmation was declined, a PreviewedOnly result never halts the
\* batch, and no batch and no recovery dialogue changes the flag.
C31_FlagPreviewsEverything == []PreviewsWhileFlagSet /\ [][FlagKept]_vars

\* with the flag set an automatic batch previewed all three commands, the
\* dangerous one after its confirmation
C31_Witness ==
  \E f \in Activations :
    /\ dryRun
    /\ Returned(f) /\ IsBatch(f, "auto")
    /\ f.commands = ThreeCommands
    /\ Did(f, 3, "approved")
    /\ \A k \in 1..3 : f.results[k] = DryRunResult(f.commands[k])

\* C32: executeMultipleCommands called without a mode previews its commands
\* as a call with mode 'dry' does, and called with a mode that is none of
\* 'dry', 'auto' and 'interactive' it returns an empty result list without
\* asking, confirming or spawning anything.
C32_MissingAndUnknownMode ==
  \A f \in Activations :
    f.fn = "executeMultipleCommands" =>
      /\ f.options.mode = <<>> =>
           /\ f.pc = "return"
           /\ f.results = DryRunResults(f.commands)
           /\ f.log = {} /\ f.dialogue = {}
      /\ f.options.mode \notin {<<>>, <<"dry">>, <<"auto">>, <<"interactive">>} =>
           /\ f.pc = "return"
           /\ f.results = <<>> /\ f.result = <<>>
           /\ f.log = {} /\ f.dialogue = {}

\* a call with the mode 'step' on three commands returned no result
C32_Witness ==
  \E f \in Activations :
    /\ Returned(f)
    /\ f.fn = "executeMultipleCommands"
    /\ f.options.mode = <<"step">>
    /\ f.commands = ThreeCommands
    /\ f.results = <<>>

(***************************************************************************)
(* C34: Starting from an empty configuration, after any sequence of        *)
(* setPlatformApiKey, deletePlatformApiKey and setCurrentProvider the      *)
(* stored currentProvider is null or a provider that has a key in          *)
(* platforms, and it is null exactly when platforms is empty.              *)
(* setCurrentProvider to a provider without a key returns false and        *)
(* changes nothing; deleting the key of the active provider makes a        *)
(* remaining provider the active one, or none if no key is left.           *)
(***************************************************************************)
ActiveProviderHasKey ==
  LET json == readFullConfig
  IN /\ json.currentProvider # <<>> => HasKey(json, json.currentProvider[1])
     /\ json.currentProvider = <<>> <=> DOMAIN json.platforms[1] = {}

ProviderStepsAsStated ==
  \A provider \in Providers :
    LET json == readFullConfig
    IN /\ (setCurrentProvider /\ setCurrentProviderOf(provider)
             /\ ~HasKey(json, provider))
           => /\ outcome'[1].frame.result = <<FALSE>>
              /\ configFile' = configFile
       /\ (deletePlatformApiKey /\ deletePlatformApiKeyOf(provider)
             /\ json.currentProvider = <<provider>>)
           => LET after == configFile'[1]
              IN /\ ~HasKey(after, provider)
                 /\ after.currentProvider # <<provider>>
                 /\ IF DOMAIN after.platforms[1] = {}
                      THEN after.currentProvider = <<>>
                      ELSE /\ after.currentProvider # <<>>
                           /\ HasKey(after, after.currentProvider[1])

C34_ActiveProviderHasKey ==
  []ActiveProviderHasKey /\ [][ProviderStepsAsStated]_vars

\* the key of one of two providers was deleted and the other is the active one
C34_Witness ==
  /\ outcome = Delivered("deletePlatformApiKey", <<"gemini">>, TRUE)
  /\ configFile # <<>>
  /\ DOMAIN configFile[1].platforms[1] = {"chatgpt"}
  /\ configFile[1].currentProvider = <<"chatgpt">>

(***************************************************************************)
(* C35: An operation that stores an API key (setPlatformApiKey or          *)
(* setAIConfig) leaves the stored default execution mode, output mode and  *)
(* debug mode and the API keys of the other platforms as they were.        *)
(***************************************************************************)
\* the settings the getters return and the keys of the platforms other than
\* the given one are the same before and after the step
SettingsKept(provider) ==
  /\ getDefaultExecutionMode' = getDefaultExecutionMode
  /\ getOutputMode' = getOutputMode
  /\ getDebugMode' = getDebugMode
  /\ \A other \in Providers \ {provider} :
       /\ HasKey(readFullConfig', other) <=> HasKey(readFullConfig, other)
       /\ HasKey(readFullConfig, other) =>
            readFullConfig'.platforms[1][other]
              = readFullConfig.platforms[1][other]

PlatformKeyStoreKeepsSettings ==
  \A provider \in Providers, apiKey \in ApiKeys :
    (setPlatformApiKey /\ setPlatformApiKeyOf(provider, apiKey))
      => SettingsKept(provider)

AIConfigStoreKeepsSettings ==
  \A provider \in Providers, apiKey \in ApiKeys :
    (setAIConfig /\ setAIConfigOf(provider, apiKey)) => SettingsKept(provider)

C35_KeyStoresKeepSettings ==
  [][PlatformKeyStoreKeepsSettings /\ AIConfigStoreKeepsSettings]_vars

\* the part of the statement that is about setPlatformApiKey alone
C35_PlatformKeyStoreKeepsSettings == [][PlatformKeyStoreKeepsSettings]_vars

(***************************************************************************)
(* C37: After recordChatGPTUsage and recordGeminiUsageWithActualData the   *)
(* stored date is the current date and the request counter of the          *)
(* provider is one more than its value of today before the call; counters  *)
(* stored on an earlier date count as zero: they are reset before the new  *)
(* usage is added.                                                         *)
(***************************************************************************)
\* the step is a recording of the provider with the given token count
Records(provider, tokens) ==
  \/ /\ provider = "chatgpt"
     /\ recordChatGPTUsage
     /\ outcome'[1].frame.args \in {<<>>, <<tokens>>}
     /\ outcome'[1].frame.args = <<>> => tokens = 0
  \/ /\ provider = "gemini"
     /\ recordGeminiUsageWithActualData
     /\ outcome'[1].frame.args = <<tokens>>

RecordedOnToday ==
  \A provider \in Providers, tokens \in TokenCounts :
    Records(provider, tokens) =>
      /\ usageFile'.date = today
      /\ IF usageFile.date = today
           THEN /\ usageFile'.requests[provider]
                     = usageFile.requests[provider] + 1
                /\ usageFile'.totalTokens[provider]
                     = usageFile.totalTokens[provider] + tokens
                /\ \A other \in Providers \ {provider} :
                     /\ usageFile'.requests[other] = usageFile.requests[other]
                     /\ usageFile'.totalTokens[other]
                          = usageFile.totalTokens[other]
           ELSE /\ usageFile'.requests[provider] = 1
                /\ usageFile'.totalTokens[provider] = tokens
                /\ \A other \in Providers \ {provider} :
                     /\ usageFile'.requests[other] = 0
                     /\ usageFile'.totalTokens[other] = 0

\* the stored date is never ahead of the clock
DateNotAhead == usageFile.date <= today

C37_UsageRecordedOnToday == []DateNotAhead /\ [][RecordedOnToday]_vars

\* a request was recorded on a later day than the counters in the file
\* were of: the counters were reset and count this request alone
C37_Witness ==
  /\ outcome # <<>>
  /\ outcome[1].frame.fn = "recordGeminiUsageWithActualData"
  /\ outcome[1].frame.args = <<MaxTokens>>
  /\ today = 2
  /\ usageFile = [date |-> 2,
                  requests |-> [p \in Providers |->
                                  IF p = "gemini" THEN 1 ELSE 0],
                  totalTokens |-> [p \in Providers |->
                                     IF p = "gemini" THEN MaxTokens ELSE 0]]

(***************************************************************************)
(* C33: validateApiKey is transparent to the active AI configuration.      *)
(* When it has returned, true or false, getConfig returns the              *)
(* configuration the config module has stored at that time, and            *)
(* generateCommand makes its request with the stored configuration, so a   *)
(* key saved after a successful validation is the one the next             *)
(* generateCommand uses.                                                   *)
(***************************************************************************)
C33_ValidationLeavesNoOverride ==
  outcome # <<>> =>
    /\ outcome[1].frame.fn = "validateApiKey" => getConfig = getAIConfig
    /\ outcome[1].frame.fn = "generateCommand" =>
         outcome[1].frame.result = <<getAIConfig>>

\* the part of the statement that holds: a validation that answers false
\* leaves no override
C33_FailedValidationLeavesNoOverride ==
  (/\ outcome # <<>>
   /\ outcome[1].frame.fn = "validateApiKey"
   /\ outcome[1].frame.result = <<FALSE>>)
    => tempConfig = <<>>

(***************************************************************************)
(* C36: The CLI resolves the execution mode of an invocation by a fixed    *)
(* precedence: --dry-run before --interactive before --auto before the     *)
(* stored default mode.  When the resolved mode is Preview, neither        *)
(* executeMultipleCommands nor executeCommand is called and no process is  *)
(* spawned for a generated command; otherwise executeMultipleCommands is   *)
(* called once with the generated commands and the resolved mode.          *)
(***************************************************************************)
\* the mode the statement gives for the flags and the default mode
ModeByPrecedence(options, defaultMode) ==
  CASE options.dryRun -> "dry"
    [] ~options.dryRun /\ options.interactive -> "interactive"
    [] ~options.dryRun /\ ~options.interactive /\ options.auto -> "auto"
    [] OTHER -> defaultMode

CliDispatchesByPrecedence ==
  \A options \in CliOptions, commands \in GeneratedCommands \ {<<>>},
     chosen \in ExecutionModes :
    (executeGitCommand /\ executeGitCommandOf(options, commands, chosen)) =>
      LET currentMode == getDefaultExecutionMode
          mode == ModeByPrecedence(options, IF currentMode # <<>>
                                              THEN currentMode[1]
                                              ELSE chosen)
      IN IF mode = "dry"
           THEN /\ stack' = <<>>
                /\ outcome' # <<>>
                /\ outcome'[1].frame.mode = "dry"
                /\ \A k \in DOMAIN outcome'[1].frame.executorCalls :
                     outcome'[1].frame.executorCalls[k] = "getGitStatus"
           ELSE /\ Len(stack') = 1
                /\ stack'[1].fn = "executeMultipleCommands"
                /\ stack'[1].commands = commands
                /\ stack'[1].options.mode = <<mode>>
                /\ stack'[1].pc = "loop"
                /\ stack'[1].log = {}

\* a delivered Preview invocation was one with --dry-run or without
\* --interactive and --auto, and it called nothing but getGitStatus
PreviewSpawnsNothing ==
  (/\ outcome # <<>>
   /\ outcome[1].frame.fn = "executeGitCommand"
   /\ outcome[1].frame.mode = "dry")
    => /\ stack = <<>>
       /\ \/ outcome[1].frame.args[1].dryRun
          \/ /\ ~outcome[1].frame.args[1].interactive
             /\ ~outcome[1].frame.args[1].auto
             /\ getDefaultExecutionMode = <<"dry">>
       /\ \A k \in DOMAIN outcome[1].frame.executorCalls :
            outcome[1].frame.executorCalls[k] = "getGitStatus"

LegacyRunsAsStated ==
  \A f \in Activations :
    IsLegacy(f) =>
      LET n == Len(f.results)
          stopped == /\ n > 0
                     /\ ~f.results[n].success
                     /\ ~f.options.continueOnError
      IN /\ f.resultOf = Identity(n)
         /\ n <= Len(f.commands)
         /\ f.cmdOptions = PassedOptions(f.options)
         /\ \A k \in 1..(n - 1) :
              ~f.results[k].success => f.options.continueOnError
         /\ stopped => f.pc = "return"
         /\ f.pc = "return" => stopped \/ n = Len(f.commands)
         /\ \A entry \in f.log : entry[1] <= IF f.pc = "return" THEN n ELSE n + 1

\* the options and the commands of a running legacy batch stay as passed
LegacyOptionsKept ==
  (stack # <<>> /\ stack' # <<>> /\ IsLegacy(stack[1])) =>
    /\ stack'[1].options = stack[1].options
    /\ stack'[1].commands = stack[1].commands
    /\ stack'[1].cmdOptions = stack[1].cmdOptions

C38_LegacyStopsAtFirstFailure ==
  []LegacyRunsAsStated /\ [][LegacyOptionsKept]_vars

\* with continueOnError the batch went on after a Cancelled result; without
\* it the same batch would have returned that result alone
C38_Witness ==
  \E f \in Activations :
    /\ Returned(f)
    /\ IsLegacy(f)
    /\ f.options = [dryRun |-> FALSE, skipSuggestion |-> FALSE,
                    continueOnError |-> TRUE]
    /\ f.commands = <<CmdReset, CmdStatus>>
    /\ Len(f.results) = 2
    /\ IsCancelled(f.results[1])
    /\ IsSucceeded(f.results[2])

=========================================================================
